---------------------------- MODULE Spec2Model ----------------------------
(***************************************************************************)
(* Receive side of the ZMODEM engine of cliserver (src/zm_receive.c,       *)
(* src/zm_proto.c, src/zm_utils.c).                                        *)
(*                                                                         *)
(* The session structure (struct zmr_state_s) is the record zm.  One Feed  *)
(* step is one call of zmr_receive(): the host has copied a chunk into     *)
(* rcvbuf and zm_parse() runs over the whole chunk, calling the write and  *)
(* on_receive callbacks on the way.  What the callbacks saw during the     *)
(* last call is recorded in the fields wr (write calls), rx (on_receive    *)
(* calls), ev (events handed to zm_event) and hd (headers completed).      *)
(*                                                                         *)
(* zm.h, crc16.h and crc32.h are not among the sources: the protocol       *)
(* constants and the CRC functions follow the protocol description, and    *)
(* the counters ncan, nerrors and ntimeouts and the file offset are        *)
(* integers without a width.  zmr_initialize() does not clear the          *)
(* structure it allocates: the fields it leaves unassigned start from one  *)
(* of MemoryImages; the pointers filename and attn start as NULL.          *)
(***************************************************************************)
EXTENDS Integers, Sequences, FiniteSets, TLC

(***************************************************************************)
(* Bounds of the exploration                                               *)
(***************************************************************************)
MaxFeeds == 2

(***************************************************************************)
(* Wire constants                                                          *)
(***************************************************************************)
ZPAD   == 42
ZDLE   == 24
ZBIN   == 65
ZHEX   == 66
ZBIN32 == 67
ZRUB0  == 108
ZRUB1  == 109
ZCRCE  == 104
ZCRCG  == 105
ZCRCQ  == 106
ZCRCW  == 107

ASCII_BS   == 8
ASCII_LF   == 10
ASCII_CR   == 13
ASCII_DLE  == 16
ASCII_XON  == 17
ASCII_XOFF == 19
ASCII_CAN  == 24
ASCII_GS   == 29
ASCII_DEL  == 127
CH_O       == 79
CH_AT      == 64

ZRQINIT == 0
ZRINIT  == 1
ZSINIT  == 2
ZACK    == 3
ZFILE   == 4
ZNAK    == 6
ZFIN    == 8
ZRPOS   == 9
ZDATA   == 10
ZEOF    == 11
ZFERR   == 12
ZCRC    == 13
ZFREECNT == 17
ZCOMMAND == 18
ZSTDERR == 19

\* Events that are not header types (enum zm_event_e)
ZME_CANCEL   == 251
ZME_OO       == 252
ZME_DATARCVD == 253
ZME_TIMEOUT  == 254
ZME_ERROR    == 255

ZM_XFRDONE == 1
EPERM      == 1
EIO        == 5
ETIMEDOUT  == 110

PKTBUFSIZE == 512
RCVBUFSIZE == 512
MAXERRORS  == 20
SERIALNO   == 1
RESPTIME   == 10
CONNTIME   == 30

TESCCTL == 64
ZMMASK  == 31
ZMCRC   == 2
ZCNL    == 2
ATTNBRK == 221
ATTNPSE == 222

Byte == 0..255

(***************************************************************************)
(* Bit operations on naturals                                              *)
(***************************************************************************)
\* a ^ b for values below 2^w, the high half of the bits and the low half
RECURSIVE XorBits(_, _, _)
XorBits(a, b, w) ==
  IF a = 0 THEN b
  ELSE IF b = 0 THEN a
  ELSE IF w = 1 THEN 0
  ELSE LET h == 2 ^ (w \div 2)
       IN  h * XorBits(a \div h, b \div h, w \div 2)
           + XorBits(a % h, b % h, w \div 2)

BXor(a, b) == XorBits(a, b, 16)

RECURSIVE BAnd(_, _)
BAnd(a, b) ==
  IF a = 0 \/ b = 0 THEN 0
  ELSE ((a % 2) * (b % 2)) + 2 * BAnd(a \div 2, b \div 2)

\* ch ^= 0x40
Toggle6(ch) == IF (ch \div 64) % 2 = 1 THEN ch - 64 ELSE ch + 64

(***************************************************************************)
(* CRC-16/XMODEM (poly 0x1021, init 0) and CRC-32 (poly 0xEDB88320)        *)
(* <crc16.h> and <crc32.h> are not part of the sources.                    *)
(***************************************************************************)
RECURSIVE Crc16Bits(_, _)
Crc16Bits(c, n) ==
  IF n = 0 THEN c
  ELSE Crc16Bits(IF c >= 32768 THEN BXor((c * 2) % 65536, 4129)
                 ELSE (c * 2) % 65536, n - 1)

crc16_tab == [i \in Byte |-> Crc16Bits(i * 256, 8)]

\* the loop of crc16part over src[lo..hi]: the first half of the bytes, then
\* the second half from the value the first half left
RECURSIVE Crc16Loop(_, _, _, _)
Crc16Loop(src, lo, hi, crc16val) ==
  IF lo > hi THEN crc16val
  ELSE IF lo = hi
  THEN BXor(crc16_tab[BXor(crc16val \div 256, src[lo])],
            (crc16val * 256) % 65536)
  ELSE LET mid  == (lo + hi) \div 2
           half == Crc16Loop(src, lo, mid, crc16val)
       IN  IF half >= 0 THEN Crc16Loop(src, mid + 1, hi, half) ELSE half

crc16part(src, crc16val) == Crc16Loop(src, 1, Len(src), crc16val)

\* A 32-bit CRC value is the pair <<high 16 bits, low 16 bits>>.
Xor32(x, y) == << BXor(x[1], y[1]), BXor(x[2], y[2]) >>

RECURSIVE Crc32Bits(_, _)
Crc32Bits(c, n) ==
  IF n = 0 THEN c
  ELSE LET sh == << c[1] \div 2, (c[2] \div 2) + 32768 * (c[1] % 2) >>
       IN  Crc32Bits(IF c[2] % 2 = 1 THEN Xor32(sh, <<60856, 33568>>)
                     ELSE sh, n - 1)

crc32_tab == [i \in Byte |-> Crc32Bits(<<0, i>>, 8)]

\* the loop of crc32part over src[lo..hi]: the first half of the bytes, then
\* the second half from the value the first half left
RECURSIVE Crc32Loop(_, _, _, _)
Crc32Loop(src, lo, hi, crc32val) ==
  IF lo > hi THEN crc32val
  ELSE IF lo = hi
  THEN Xor32(crc32_tab[BXor(crc32val[2] % 256, src[lo])],
             << crc32val[1] \div 256,
                (crc32val[2] \div 256) + 256 * (crc32val[1] % 256) >>)
  ELSE LET mid  == (lo + hi) \div 2
           half == Crc32Loop(src, lo, mid, crc32val)
       IN  IF half[1] >= 0 THEN Crc32Loop(src, mid + 1, hi, half) ELSE half

crc32part(src, crc32val) == Crc32Loop(src, 1, Len(src), crc32val)

CRC32_INIT    == <<65535, 65535>>
CRC32_RESIDUE == <<57019, 8419>>

(***************************************************************************)
(* zm_utils.c                                                              *)
(***************************************************************************)
g_zeroes == <<0, 0, 0, 0>>

\* four bytes, least significant first, to a 32-bit value
zm_bytobe32(val8) ==
  val8[1] + 256 * val8[2] + 65536 * val8[3] + 16777216 * val8[4]

zm_be32toby(val32) ==
  << val32 % 256, (val32 \div 256) % 256,
     (val32 \div 65536) % 256, (val32 \div 16777216) % 256 >>

\* zm_encnibble() as it would be with upper-case digits
zm_encnibble_upper(nibble) ==
  IF nibble < 10 THEN nibble + 48 ELSE nibble + 65 - 10

zm_encnibble(nibble) == IF nibble < 10 THEN nibble + 48 ELSE nibble + 97 - 10

\* the (char) arithmetic is reduced to the uint8_t that is returned
zm_decnibble(hex) ==
  IF hex <= 57 THEN (hex - 48) % 256
  ELSE IF hex <= 70 THEN (hex - 65 + 10) % 256
  ELSE (hex - 97 + 10) % 256

zm_puthex8(ch) == << zm_encnibble((ch \div 16) % 16), zm_encnibble(ch % 16) >>

\* isxdigit() in the C locale
isxdigit(ch) == (ch >= 48 /\ ch <= 57) \/ (ch >= 65 /\ ch <= 70)
                \/ (ch >= 97 /\ ch <= 102)

(***************************************************************************)
(* The session record.  VARIABLES:                                         *)
(*   zm     struct zmr_state_s (with its embedded struct zm_state_s), the  *)
(*          outcome of the callbacks for the current call (wret, rret),    *)
(*          what the callbacks saw during the last call (wr, rx, ev) and   *)
(*          the status the last call returned (ret)                        *)
(*   total  number of payload bytes for which on_receive returned >= 0     *)
(*   nfeeds number of calls made so far                                    *)
(***************************************************************************)
VARIABLES zm, total, nfeeds

vars == <<zm, total, nfeeds>>

SetFlag(m, f) == [m EXCEPT !.flags = @ \cup {f}]
ClrFlag(m, f) == [m EXCEPT !.flags = @ \ {f}]

\* pktbuf[idx] = ch, pktbuf being kept as the prefix stored so far
PutPkt(buf, idx, ch) ==
  IF idx < Len(buf) THEN [buf EXCEPT ![idx + 1] = ch] ELSE Append(buf, ch)

\* the C string at the start of pktbuf
RECURSIVE CStr(_)
CStr(buf) ==
  IF buf = <<>> \/ Head(buf) = 0 THEN <<>> ELSE <<Head(buf)>> \o CStr(Tail(buf))

(***************************************************************************)
(* zm_proto.c                                                              *)
(***************************************************************************)
g_canistr == << ASCII_CAN, ASCII_CAN, ASCII_CAN, ASCII_CAN, ASCII_CAN,
                ASCII_CAN, ASCII_CAN, ASCII_CAN,
                ASCII_BS, ASCII_BS, ASCII_BS, ASCII_BS, ASCII_BS,
                ASCII_BS, ASCII_BS, ASCII_BS, ASCII_BS, ASCII_BS >>

\* a call of the write callback; the value is what the callback returned
WriteCb(m, bytes) == [m EXCEPT !.wr = Append(@, bytes)]

\* the bytes zm_sendhexhdr composes in scratch
HexHdrBytes(type, buffer) ==
  LET crc == crc16part(<<type % 256>> \o buffer \o <<0, 0>>, 0)
  IN  <<ZPAD, ZPAD, ZDLE, ZHEX>>
      \o zm_puthex8(type % 256)
      \o zm_puthex8(buffer[1]) \o zm_puthex8(buffer[2])
      \o zm_puthex8(buffer[3]) \o zm_puthex8(buffer[4])
      \o zm_puthex8((crc \div 256) % 256) \o zm_puthex8(crc % 256)
      \o <<ASCII_CR, ASCII_LF>>
      \o (IF type # ZACK /\ type # ZFIN THEN <<ASCII_XON>> ELSE <<>>)

\* zm_sendhexhdr() as it would be if it ignored what write() returns
zm_sendhexhdr_ignore(m, type, buffer) ==
  [WriteCb(m, HexHdrBytes(type, buffer)) EXCEPT !.ret = 0]

zm_sendhexhdr(m, type, buffer) ==
  [WriteCb(m, HexHdrBytes(type, buffer)) EXCEPT
     !.ret = IF m.wret < 0 THEN m.wret ELSE 0]

\* The bytes zm_putzdle adds to the buffer.  zrub is FALSE for a build with
\* CONFIG_SYSTEM_ZMODEM_DISABLE_ZRUB, which no file of src defines.
PutZdleBytes(flags, ch, zrub) ==
  LET ch7 == ch % 128
      escape == \/ ch = ZDLE
                \/ ch7 \in {ASCII_DLE, ASCII_XON, ASCII_XOFF, ASCII_GS}
                \/ (ch7 = ASCII_CR /\ "ATSIGN" \in flags)
                \/ (ch7 < 32 /\ "ESCCTRL" \in flags)
                \/ (zrub /\ (ch7 = ASCII_DEL \/ ch = 255))
  IN  IF escape
      THEN << ZDLE, IF ch = ASCII_DEL THEN ZRUB0
                    ELSE IF ch = 255 THEN ZRUB1
                    ELSE Toggle6(ch) >>
      ELSE <<ch>>

\* zm_putzdle() as CONFIG_SYSTEM_ZMODEM_DISABLE_ZRUB would build it
zm_putzdle_nozrub(m, ch) ==
  [m EXCEPT !.out = @ \o PutZdleBytes(m.flags, ch, FALSE),
            !.flags = IF ch % 128 = CH_AT THEN @ \cup {"ATSIGN"}
                      ELSE @ \ {"ATSIGN"}]

\* out is the buffer the bytes are added to
zm_putzdle(m, ch) ==
  [m EXCEPT !.out = @ \o PutZdleBytes(m.flags, ch, TRUE),
            !.flags = IF ch % 128 = CH_AT THEN @ \cup {"ATSIGN"}
                      ELSE @ \ {"ATSIGN"}]

RECURSIVE PutZdleAll(_, _)
PutZdleAll(m, bytes) ==
  IF bytes = <<>> THEN m
  ELSE PutZdleAll(zm_putzdle(m, Head(bytes)), Tail(bytes))

\* the bytes zm_sendbin16hdr composes in scratch: the CRC is over the type
\* and the 4 bytes, the call of crc16part(g_zeroes, 2, crc) being commented
\* out
zm_sendbin16hdr(m, type, buffer) ==
  LET crc == crc16part(<<type % 256>> \o buffer, 0)
  IN  PutZdleAll([m EXCEPT !.out = <<ZPAD, ZDLE, ZBIN>>],
                 <<type % 256>> \o buffer
                 \o <<(crc \div 256) % 256, crc % 256>>)

\* the bytes zm_sendbin32hdr composes in scratch: ~crc, low byte first
zm_sendbin32hdr(m, type, buffer) ==
  LET crc == crc32part(<<type % 256>> \o buffer, CRC32_INIT)
      hi  == 65535 - crc[1]
      lo  == 65535 - crc[2]
  IN  PutZdleAll([m EXCEPT !.out = <<ZPAD, ZDLE, ZBIN32>>],
                 <<type % 256>> \o buffer
                 \o <<lo % 256, lo \div 256, hi % 256, hi \div 256>>)

(***************************************************************************)
(* zm_receive.c: transition actions                                        *)
(***************************************************************************)
zm_readstate(m) ==
  [m EXCEPT !.pstate = "DATA", !.psubstate = "READ", !.pktlen = 0, !.ncrc = 0]

\* zmr_zrinit() as it would be with the buffer size sent high byte first
zmr_zrinit_swapped(m) ==
  LET m1 == [ClrFlag(m, "OO") EXCEPT !.state = "START", !.timeout = RESPTIME]
  IN  zm_sendhexhdr(m1, ZRINIT,
        << (PKTBUFSIZE \div 256) % 256, PKTBUFSIZE % 256, 0, m.rcaps >>)

zmr_zrinit(m) ==
  LET m1 == [ClrFlag(m, "OO") EXCEPT !.state = "START", !.timeout = RESPTIME]
  IN  zm_sendhexhdr(m1, ZRINIT,
        << PKTBUFSIZE % 256, (PKTBUFSIZE \div 256) % 256, 0, m.rcaps >>)

zmr_zsinit(m) ==
  LET scaps == m.hdrdata[5]
      m1 == [m EXCEPT !.scaps = scaps,
                      !.flags = IF BAnd(scaps, TESCCTL) # 0
                                THEN @ \cup {"ESCCTRL"} ELSE @ \ {"ESCCTRL"}]
  IN  [zm_readstate(m1) EXCEPT !.ret = 0]

zmr_startto(m) ==
  LET m1 == [m EXCEPT !.ntimeouts = @ + 1]
  IN  IF m1.ntimeouts > 4 THEN zmr_zrinit(m1)
      ELSE [m1 EXCEPT !.ret = 0 - ETIMEDOUT]

zmr_zsrintdata(m) ==
  LET m1 == [m EXCEPT !.pstate = "IDLE", !.psubstate = "ZPAD"]
  IN  IF "CRKOK" \notin m1.flags THEN zm_sendhexhdr(m1, ZNAK, g_zeroes)
      ELSE zm_sendhexhdr([m1 EXCEPT !.attn = CStr(m1.pktbuf)],
                         ZACK, zm_be32toby(SERIALNO))

\* zm_be32toby(0xffffffff, by)
zmr_freecnt(m) == zm_sendhexhdr(m, ZACK, <<255, 255, 255, 255>>)

\* zmr_openfile() as it would be with the code under #if 0: a file that is
\* not resumed starts at offset 0
zmr_openfile_reset(m) ==
  zm_sendhexhdr([m EXCEPT !.state = "READREADY", !.offset = 0],
                ZRPOS, zm_be32toby(0))

zmr_openfile(m) ==
  zm_sendhexhdr([m EXCEPT !.state = "READREADY"], ZRPOS, zm_be32toby(m.offset))

zmr_zcrc(m) ==
  zmr_openfile([m EXCEPT !.crc = zm_bytobe32(SubSeq(m.hdrdata, 1, 4))])

zmr_nakcrc(m) == zm_sendhexhdr(m, ZCRC, g_zeroes)

zmr_zfile(m) ==
  LET m1 == [ClrFlag(m, "OO") EXCEPT !.nerrors = 0,
                                     !.f0 = m.hdrdata[5], !.f1 = m.hdrdata[4]]
  IN  [zm_readstate(m1) EXCEPT !.ret = 0]

\* attn without the ATTNBRK and ATTNPSE characters
RECURSIVE AttnChars(_)
AttnChars(a) ==
  IF a = <<>> THEN <<>>
  ELSE IF Head(a) = ATTNBRK \/ Head(a) = ATTNPSE THEN AttnChars(Tail(a))
  ELSE <<Head(a)>> \o AttnChars(Tail(a))

RECURSIVE PutAll(_, _, _)
PutAll(buf, idx, bytes) ==
  IF bytes = <<>> THEN buf
  ELSE PutAll(PutPkt(buf, idx, Head(bytes)), idx + 1, Tail(bytes))

zmr_fileerror(m, type, data) ==
  LET m1 == [m EXCEPT !.pstate = "IDLE", !.psubstate = "ZPAD"]
  IN  IF m1.attn # <<>>
      THEN LET chars == AttnChars(m1.attn)
               m2 == WriteCb([m1 EXCEPT !.pktbuf =
                                PutAll(@, 0, chars \o <<0>>)], chars)
           IN  IF m2.wret < 0 THEN [m2 EXCEPT !.ret = m2.wret]
               ELSE zm_sendhexhdr(m2, type, zm_be32toby(data))
      ELSE zm_sendhexhdr(m1, type, zm_be32toby(data))

\* zmr_zdata() as it would be without the comparison of the position
zmr_zdata_nocheck(m) == [zm_readstate(m) EXCEPT !.ret = 0]

zmr_zdata(m) ==
  IF zm_bytobe32(SubSeq(m.hdrdata, 2, 5)) # m.offset
  THEN zmr_fileerror(m, ZRPOS, m.offset)
  ELSE [zm_readstate(m) EXCEPT !.ret = 0]

zmr_badrpos(m) == zm_sendhexhdr(m, ZRPOS, zm_be32toby(m.offset))

\* zmr_filename() as it would be if it never asked for the file CRC
zmr_filename_nocrc(m) ==
  LET m1 == [m EXCEPT !.pstate = "IDLE", !.psubstate = "ZPAD"]
  IN  IF "CRKOK" \notin m1.flags
      THEN zm_sendhexhdr([m1 EXCEPT !.state = "START"], ZNAK, g_zeroes)
      ELSE zmr_openfile([m1 EXCEPT !.state = "READREADY"])

\* The file name and the sscanf() of the metadata only set filename and
\* filesize, which nothing reads.
zmr_filename(m) ==
  LET m1 == [m EXCEPT !.pstate = "IDLE", !.psubstate = "ZPAD"]
  IN  IF "CRKOK" \notin m1.flags
      THEN zm_sendhexhdr([m1 EXCEPT !.state = "START"], ZNAK, g_zeroes)
      ELSE IF BAnd(m1.f1, ZMMASK) = ZMCRC
      THEN zm_sendhexhdr([m1 EXCEPT !.state = "CRCWAIT"], ZCRC, g_zeroes)
      ELSE zmr_openfile([m1 EXCEPT !.state = "READREADY"])

\* the CRC failure branch as it would be if the limit were nerrors >= MAXERRORS
FileDataBad_early(m) ==
  LET m1 == [m EXCEPT !.nerrors = @ + 1]
  IN  IF m1.nerrors >= MAXERRORS
      THEN [zm_readstate(WriteCb(m1, g_canistr)) EXCEPT !.ret = 0 - EIO]
      ELSE zmr_fileerror([m1 EXCEPT !.state = "READREADY",
                                    !.pstate = "IDLE",
                                    !.psubstate = "ZPAD"],
                         ZRPOS, m1.offset)

\* zmr_filedata(), the packet failed its CRC
FileDataBad(m) ==
  LET m1 == [m EXCEPT !.nerrors = @ + 1]
  IN  IF m1.nerrors > MAXERRORS
      THEN [zm_readstate(WriteCb(m1, g_canistr)) EXCEPT !.ret = 0 - EIO]
      ELSE zmr_fileerror([m1 EXCEPT !.state = "READREADY",
                                    !.pstate = "IDLE",
                                    !.psubstate = "ZPAD"],
                         ZRPOS, m1.offset)

\* the reply as it would be if only ZCRCE left data mode
FileDataReply_stream(m2) ==
  LET m3 == IF m2.pkttype = ZCRCE
            THEN [m2 EXCEPT !.state = "READREADY",
                            !.pstate = "IDLE",
                            !.psubstate = "ZPAD"]
            ELSE zm_readstate(m2)
  IN  IF m3.pkttype = ZCRCQ \/ m3.pkttype = ZCRCW
      THEN zm_sendhexhdr(m3, ZACK, zm_be32toby(m3.offset))
      ELSE [m3 EXCEPT !.ret = 0]

\* the reply as it would be if every packet type were acknowledged
FileDataReply_ackall(m2) ==
  LET m3 == IF m2.pkttype = ZCRCE \/ m2.pkttype = ZCRCW
            THEN [m2 EXCEPT !.state = "READREADY",
                            !.pstate = "IDLE",
                            !.psubstate = "ZPAD"]
            ELSE zm_readstate(m2)
  IN  zm_sendhexhdr(m3, ZACK, zm_be32toby(m3.offset))

\* the reply after a delivered packet
FileDataReply(m2) ==
  LET m3 == IF m2.pkttype = ZCRCE \/ m2.pkttype = ZCRCW
            THEN [m2 EXCEPT !.state = "READREADY",
                            !.pstate = "IDLE",
                            !.psubstate = "ZPAD"]
            ELSE zm_readstate(m2)
  IN  IF m3.pkttype = ZCRCQ \/ m3.pkttype = ZCRCW
      THEN zm_sendhexhdr(m3, ZACK, zm_be32toby(m3.offset))
      ELSE [m3 EXCEPT !.ret = 0]

\* the on_receive failure branch
FileDataAbort(m1) ==
  LET errorcode == 0 - EPERM
      m2 == zmr_fileerror([m1 EXCEPT !.state = "FINISH",
                                     !.pstate = "IDLE",
                                     !.psubstate = "ZPAD"],
                          ZFERR, errorcode)
  IN  [m2 EXCEPT !.ret = 0 - errorcode]

\* the CRC-valid branch as it would be if it passed pktlen - 1 bytes on
FileDataGood_short(m) ==
  LET m1 == [m EXCEPT !.rx = Append(@,
                [data |-> SubSeq(m.pktbuf, 1, m.pktlen - 1),
                 zcnl |-> (m.f0 = ZCNL)])]
  IN  IF m1.rret < 0 THEN FileDataAbort(m1)
      ELSE FileDataReply([m1 EXCEPT !.offset = @ + m1.pktlen])

\* zmr_filedata(), the packet passed its CRC: on_receive(pktbuf, pktlen,
\* f0 == ZCNL)
FileDataGood(m) ==
  LET m1 == [m EXCEPT !.rx = Append(@,
                [data |-> SubSeq(m.pktbuf, 1, m.pktlen),
                 zcnl |-> (m.f0 = ZCNL)])]
  IN  IF m1.rret < 0 THEN FileDataAbort(m1)
      ELSE FileDataReply([m1 EXCEPT !.offset = @ + m1.pktlen])

\* zmr_filedata() as it would be without the test of flags.CRKOK
zmr_filedata_nocrc(m) == FileDataGood(m)

zmr_filedata(m) ==
  IF "CRKOK" \notin m.flags THEN FileDataBad(m) ELSE FileDataGood(m)

zmr_rcvto(m) ==
  LET m1 == [m EXCEPT !.ntimeouts = @ + 1]
  IN  IF m1.ntimeouts > 4 THEN [m1 EXCEPT !.ret = 0 - ETIMEDOUT]
      ELSE zmr_zrinit(m1)

zmr_fileto(m) ==
  LET m1 == [m EXCEPT !.ntimeouts = @ + 1]
  IN  IF m1.ntimeouts > 2 THEN zmr_zrinit([m1 EXCEPT !.ntimeouts = 0])
      ELSE IF m1.state = "CRCWAIT" THEN zmr_nakcrc(m1) ELSE zmr_badrpos(m1)

\* zmr_zeof() as it would be without the test of the file length
zmr_zeof_nocheck(m) == zmr_zrinit(m)

zmr_zeof(m) ==
  IF zm_bytobe32(SubSeq(m.hdrdata, 2, 5)) # m.offset
  THEN [m EXCEPT !.state = "READREADY", !.ret = 0]
  ELSE zmr_zrinit(m)

zmr_cmddata(m) == [m EXCEPT !.ret = 0]

\* zmr_zfin() as it would be without setting flags.OO
zmr_zfin_nooo(m) ==
  LET m1 == [m EXCEPT !.pstate = "IDLE", !.psubstate = "ZPAD", !.attn = <<>>]
  IN  zm_sendhexhdr(m1, ZFIN, g_zeroes)

\* zmr_filecleanup() releases filename and attn
zmr_zfin(m) ==
  LET m1 == [m EXCEPT !.pstate = "IDLE", !.psubstate = "ZPAD", !.attn = <<>>]
  IN  zm_sendhexhdr(SetFlag(m1, "OO"), ZFIN, g_zeroes)

zmr_finto(m) ==
  [ClrFlag(m, "OO") EXCEPT !.ntimeouts = @ + 1, !.ret = 0 - ETIMEDOUT]

zmr_oo(m) == [m EXCEPT !.ret = ZM_XFRDONE]

zmr_message(m) == [zm_readstate(m) EXCEPT !.ret = 0]

zmr_zstderr(m) ==
  [m EXCEPT !.pktbuf = PutPkt(@, m.pktlen, 0), !.ret = 0]

zmr_cmdto(m) == [m EXCEPT !.ret = 0 - ETIMEDOUT]

zmr_doneto(m) == [m EXCEPT !.ret = 0 - ETIMEDOUT]

\* zmr_error() as it would be if it did not set ZM_FLAG_WAIT
zmr_error_nowait(m) == [ClrFlag(m, "OO") EXCEPT !.ret = 0]

zmr_error(m) == [ClrFlag(SetFlag(m, "WAIT"), "OO") EXCEPT !.ret = 0]

(***************************************************************************)
(* zm_receive.c: the state x event table                                   *)
(***************************************************************************)
Row(type, bdiscard, next, action) ==
  [type |-> type, bdiscard |-> bdiscard, next |-> next, action |-> action]

g_zmr_start == <<
  Row(ZSINIT,       FALSE, "INITWAIT",  "zmr_zsinit"),
  Row(ZFILE,        FALSE, "FILEINFO",  "zmr_zfile"),
  Row(ZRQINIT,      FALSE, "START",     "zmr_zrinit"),
  Row(ZFIN,         TRUE,  "FINISH",    "zmr_zfin"),
  Row(ZNAK,         TRUE,  "START",     "zmr_zrinit"),
  Row(ZFREECNT,     FALSE, "START",     "zmr_freecnt"),
  Row(ZCOMMAND,     FALSE, "COMMAND",   "zmr_cmddata"),
  Row(ZSTDERR,      FALSE, "MESSAGE",   "zmr_message"),
  Row(ZME_TIMEOUT,  FALSE, "START",     "zmr_startto"),
  Row(ZME_ERROR,    FALSE, "START",     "zmr_error") >>

g_zmr_initwait == <<
  Row(ZME_DATARCVD, FALSE, "START",     "zmr_zsrintdata"),
  Row(ZME_TIMEOUT,  FALSE, "INITWAIT",  "zmr_rcvto"),
  Row(ZME_ERROR,    FALSE, "INITWAIT",  "zmr_error") >>

g_zmr_fileinfo == <<
  Row(ZME_DATARCVD, FALSE, "READREADY", "zmr_filename"),
  Row(ZME_TIMEOUT,  FALSE, "FILEINFO",  "zmr_rcvto"),
  Row(ZME_ERROR,    FALSE, "FILEINFO",  "zmr_error") >>

g_zmr_crcwait == <<
  Row(ZCRC,         FALSE, "READREADY", "zmr_zcrc"),
  Row(ZNAK,         FALSE, "CRCWAIT",   "zmr_nakcrc"),
  Row(ZRQINIT,      TRUE,  "START",     "zmr_zrinit"),
  Row(ZFIN,         TRUE,  "FINISH",    "zmr_zfin"),
  Row(ZME_TIMEOUT,  FALSE, "CRCWAIT",   "zmr_fileto"),
  Row(ZME_ERROR,    FALSE, "CRCWAIT",   "zmr_error") >>

g_zmr_readready == <<
  Row(ZDATA,        FALSE, "READING",   "zmr_zdata"),
  Row(ZNAK,         FALSE, "READREADY", "zmr_badrpos"),
  Row(ZEOF,         FALSE, "START",     "zmr_zeof"),
  Row(ZRQINIT,      TRUE,  "START",     "zmr_zrinit"),
  Row(ZFILE,        FALSE, "READREADY", "zmr_badrpos"),
  Row(ZFIN,         TRUE,  "FINISH",    "zmr_zfin"),
  Row(ZME_TIMEOUT,  FALSE, "READREADY", "zmr_fileto"),
  Row(ZME_ERROR,    FALSE, "READREADY", "zmr_error") >>

g_zmr_reading == <<
  Row(ZRQINIT,      TRUE,  "START",     "zmr_zrinit"),
  Row(ZFILE,        FALSE, "FILEINFO",  "zmr_zfile"),
  Row(ZNAK,         TRUE,  "READREADY", "zmr_badrpos"),
  Row(ZFIN,         TRUE,  "FINISH",    "zmr_zfin"),
  Row(ZDATA,        FALSE, "READING",   "zmr_zdata"),
  Row(ZEOF,         TRUE,  "START",     "zmr_zeof"),
  Row(ZME_DATARCVD, FALSE, "READING",   "zmr_filedata"),
  Row(ZME_TIMEOUT,  FALSE, "READING",   "zmr_fileto"),
  Row(ZME_ERROR,    FALSE, "READING",   "zmr_error") >>

g_zmr_finish_done == <<
  Row(ZRQINIT,      TRUE,  "START",     "zmr_zrinit"),
  Row(ZFILE,        TRUE,  "FILEINFO",  "zmr_zfile"),
  Row(ZNAK,         TRUE,  "FINISH",    "zmr_zfin"),
  Row(ZFIN,         TRUE,  "FINISH",    "zmr_zfin"),
  Row(ZME_TIMEOUT,  FALSE, "READING",   "zmr_finto"),
  Row(ZME_OO,       FALSE, "DONE",      "zmr_oo"),
  Row(ZME_ERROR,    FALSE, "FINISH",    "zmr_error") >>

g_zmr_finish == <<
  Row(ZRQINIT,      TRUE,  "START",     "zmr_zrinit"),
  Row(ZFILE,        TRUE,  "FILEINFO",  "zmr_zfile"),
  Row(ZNAK,         TRUE,  "FINISH",    "zmr_zfin"),
  Row(ZFIN,         TRUE,  "FINISH",    "zmr_zfin"),
  Row(ZME_TIMEOUT,  FALSE, "READING",   "zmr_finto"),
  Row(ZME_OO,       FALSE, "READING",   "zmr_oo"),
  Row(ZME_ERROR,    FALSE, "FINISH",    "zmr_error") >>

g_zmr_command == <<
  Row(ZME_DATARCVD, FALSE, "COMMAND",   "zmr_cmddata"),
  Row(ZME_TIMEOUT,  FALSE, "COMMAND",   "zmr_cmdto"),
  Row(ZME_ERROR,    FALSE, "COMMAND",   "zmr_error") >>

g_zmr_message_restart == <<
  Row(ZME_DATARCVD, FALSE, "START",     "zmr_zstderr"),
  Row(ZME_TIMEOUT,  FALSE, "START",     "zmr_cmdto"),
  Row(ZME_ERROR,    FALSE, "MESSAGE",   "zmr_error") >>

g_zmr_message == <<
  Row(ZME_DATARCVD, FALSE, "MESSAGE",   "zmr_zstderr"),
  Row(ZME_TIMEOUT,  FALSE, "MESSAGE",   "zmr_cmdto"),
  Row(ZME_ERROR,    FALSE, "MESSAGE",   "zmr_error") >>

g_zmr_done == <<
  Row(ZME_TIMEOUT,  FALSE, "DONE",      "zmr_doneto"),
  Row(ZME_ERROR,    FALSE, "DONE",      "zmr_error") >>

g_zmr_evtable ==
  [ START |-> g_zmr_start, INITWAIT |-> g_zmr_initwait,
    FILEINFO |-> g_zmr_fileinfo, CRCWAIT |-> g_zmr_crcwait,
    READREADY |-> g_zmr_readready, READING |-> g_zmr_reading,
    FINISH |-> g_zmr_finish, COMMAND |-> g_zmr_command,
    MESSAGE |-> g_zmr_message, DONE |-> g_zmr_done ]

\* ptr->action(pzm)
CallAction(action, m) ==
  CASE action = "zmr_zsinit"     -> zmr_zsinit(m)
    [] action = "zmr_zfile"      -> zmr_zfile(m)
    [] action = "zmr_zrinit"     -> zmr_zrinit(m)
    [] action = "zmr_zfin"       -> zmr_zfin(m)
    [] action = "zmr_freecnt"    -> zmr_freecnt(m)
    [] action = "zmr_cmddata"    -> zmr_cmddata(m)
    [] action = "zmr_message"    -> zmr_message(m)
    [] action = "zmr_startto"    -> zmr_startto(m)
    [] action = "zmr_zsrintdata" -> zmr_zsrintdata(m)
    [] action = "zmr_rcvto"      -> zmr_rcvto(m)
    [] action = "zmr_filename"   -> zmr_filename(m)
    [] action = "zmr_zcrc"       -> zmr_zcrc(m)
    [] action = "zmr_nakcrc"     -> zmr_nakcrc(m)
    [] action = "zmr_fileto"     -> zmr_fileto(m)
    [] action = "zmr_zdata"      -> zmr_zdata(m)
    [] action = "zmr_badrpos"    -> zmr_badrpos(m)
    [] action = "zmr_zeof"       -> zmr_zeof(m)
    [] action = "zmr_filedata"   -> zmr_filedata(m)
    [] action = "zmr_finto"      -> zmr_finto(m)
    [] action = "zmr_oo"         -> zmr_oo(m)
    [] action = "zmr_zstderr"    -> zmr_zstderr(m)
    [] action = "zmr_cmdto"      -> zmr_cmdto(m)
    [] action = "zmr_doneto"     -> zmr_doneto(m)
    [] action = "zmr_error"      -> zmr_error(m)

\* the first row of the table whose type is ZME_ERROR or the event
FindRow(rows, event) ==
  LET stop(i) == rows[i].type = ZME_ERROR \/ rows[i].type = event
  IN  rows[CHOOSE i \in 1..Len(rows) :
             stop(i) /\ \A j \in 1..(i - 1) : ~stop(j)]

\* what one dispatch did: the session before it (state, flags.CRKOK, offset,
\* nerrors, ntimeouts, attn, the header, the packet), the session after it,
\* and the callbacks it called
Dispatched(m, event, action, m2) ==
  [ state |-> m.state, event |-> event, action |-> action,
    crkok |-> ("CRKOK" \in m.flags), offset |-> m.offset,
    nerrors |-> m.nerrors, pkttype |-> m.pkttype,
    ntimeouts |-> m.ntimeouts, attn |-> m.attn, hdrdata |-> m.hdrdata,
    ntimeouts2 |-> m2.ntimeouts,
    data |-> IF event = ZME_DATARCVD THEN SubSeq(m.pktbuf, 1, m.pktlen)
             ELSE <<>>,
    next |-> m2.state, pstate |-> m2.pstate, psubstate |-> m2.psubstate,
    offset2 |-> m2.offset, nerrors2 |-> m2.nerrors,
    oo |-> ("OO" \in m2.flags), ret |-> m2.ret,
    wr |-> SubSeq(m2.wr, Len(m.wr) + 1, Len(m2.wr)),
    rx |-> SubSeq(m2.rx, Len(m.rx) + 1, Len(m2.rx)) ]

zm_event(m, event) ==
  LET ptr == FindRow(g_zmr_evtable[m.state], event)
      m1  == [m EXCEPT !.state = ptr.next,
                       !.rcvlen = IF ptr.bdiscard THEN 0 ELSE @,
                       !.rcvndx = IF ptr.bdiscard THEN 0 ELSE @]
      m2  == CallAction(ptr.action, m1)
  IN  [m2 EXCEPT !.ev = Append(@, Dispatched(m, event, ptr.action, m2))]

(***************************************************************************)
(* zm_receive.c: the byte parser                                           *)
(***************************************************************************)
zm_nakhdr(m) ==
  zm_sendhexhdr([m EXCEPT !.pstate = "IDLE", !.psubstate = "ZPAD"],
                ZNAK, g_zeroes)

\* what one completed header did: its format, type and CRC verdict, the
\* state before and after, the events dispatched and the writes made
Completed(m, ok, m2) ==
  [ hdrfmt |-> m.hdrfmt, type |-> m.hdrdata[1], crcok |-> ok,
    state |-> m.state, next |-> m2.state,
    pstate |-> m2.pstate, psubstate |-> m2.psubstate,
    nev |-> Len(m2.ev) - Len(m.ev),
    same |-> ([m2 EXCEPT !.wr = m.wr, !.hd = m.hd, !.ret = m.ret,
                         !.pstate = m.pstate, !.psubstate = m.psubstate,
                         !.wret = m.wret] = m),
    ret |-> m2.ret,
    wr |-> SubSeq(m2.wr, Len(m.wr) + 1, Len(m2.wr)) ]

\* zm_hdrevent() as it would be if it dispatched without the CRC test
zm_hdrevent_nocheck(m) ==
  LET m1 == [m EXCEPT !.pstate = "IDLE", !.psubstate = "ZPAD"]
      ok == IF m1.hdrfmt = ZBIN32
            THEN crc32part(m1.hdrdata, CRC32_INIT) = CRC32_RESIDUE
            ELSE crc16part(SubSeq(m1.hdrdata, 1, 7), 0) = 0
      m2 == zm_event(m1, m1.hdrdata[1])
  IN  [m2 EXCEPT !.hd = Append(@, Completed(m, ok, m2))]

zm_hdrevent(m) ==
  LET m1 == [m EXCEPT !.pstate = "IDLE", !.psubstate = "ZPAD"]
      ok == IF m1.hdrfmt = ZBIN32
            THEN crc32part(m1.hdrdata, CRC32_INIT) = CRC32_RESIDUE
            ELSE crc16part(SubSeq(m1.hdrdata, 1, 7), 0) = 0
      m2 == IF ok THEN zm_event(m1, m1.hdrdata[1]) ELSE zm_nakhdr(m1)
  IN  [m2 EXCEPT !.hd = Append(@, Completed(m, ok, m2))]

\* zm_dataevent() as it would be if pktlen kept the terminator and the CRC
zm_dataevent_keepcrc(m) ==
  LET m1 == [m EXCEPT !.pstate = "IDLE", !.psubstate = "ZPAD"]
      buf == SubSeq(m1.pktbuf, 1, m1.pktlen)
      ok == IF m1.hdrfmt = ZBIN32
            THEN crc32part(buf, CRC32_INIT) = CRC32_RESIDUE
            ELSE crc16part(buf, 0) = 0
      m2 == IF ok THEN SetFlag(m1, "CRKOK") ELSE ClrFlag(m1, "CRKOK")
  IN  zm_event(m2, ZME_DATARCVD)

zm_dataevent(m) ==
  LET m1 == [m EXCEPT !.pstate = "IDLE", !.psubstate = "ZPAD"]
      buf == SubSeq(m1.pktbuf, 1, m1.pktlen)
      ok == IF m1.hdrfmt = ZBIN32
            THEN crc32part(buf, CRC32_INIT) = CRC32_RESIDUE
            ELSE crc16part(buf, 0) = 0
      m2 == [(IF ok THEN SetFlag(m1, "CRKOK") ELSE ClrFlag(m1, "CRKOK"))
               EXCEPT !.pktlen = IF m1.hdrfmt = ZBIN32 THEN @ - 5 ELSE @ - 3]
  IN  zm_event(m2, ZME_DATARCVD)

\* the escaped character of an escape sequence
Unescape(ch) ==
  IF ch = ZRUB0 THEN ASCII_DEL ELSE IF ch = ZRUB1 THEN 255 ELSE Toggle6(ch)

zm_idle(m, ch) ==
  LET ooCase(mm) ==
        \* case 'O', falling through to default when "OO" is not expected
        IF "OO" \in mm.flags
        THEN IF mm.psubstate = "OO"
             THEN zm_event([ClrFlag(mm, "OO") EXCEPT !.psubstate = "ZPAD"],
                           ZME_OO)
             ELSE [mm EXCEPT !.psubstate = "OO", !.ret = 0]
        ELSE [mm EXCEPT !.psubstate = "ZPAD", !.ret = 0]
  IN  IF ch = ZPAD THEN [m EXCEPT !.psubstate = "ZDLE", !.ret = 0]
      ELSE IF ch = ZDLE
      THEN IF m.psubstate = "ZDLE"
           THEN [ClrFlag(m, "OO") EXCEPT !.pstate = "HEADER",
                                         !.psubstate = "FORMAT", !.ret = 0]
           ELSE \* no break: falls through to case 'O'
                ooCase([m EXCEPT !.psubstate = "ZPAD"])
      ELSE IF ch = CH_O THEN ooCase(m)
      ELSE [m EXCEPT !.psubstate = "ZPAD", !.ret = 0]

zm_header(m, ch0) ==
  IF ch0 = ZDLE /\ "ESC" \notin m.flags
  THEN [SetFlag(m, "ESC") EXCEPT !.ret = 0]
  ELSE
    LET ch == IF "ESC" \in m.flags THEN Unescape(ch0) ELSE ch0
        m1 == ClrFlag(m, "ESC")
        ndx == m1.hdrndx
    IN  CASE m1.psubstate = "FORMAT" ->
               IF ch = ZHEX \/ ch = ZBIN \/ ch = ZBIN32
               THEN [m1 EXCEPT !.hdrfmt = ch, !.psubstate = "PAYLOAD",
                               !.hdrndx = 0, !.ret = 0]
               ELSE zm_nakhdr(m1)
          [] m1.psubstate = "PAYLOAD" ->
               IF m1.hdrfmt = ZHEX
               THEN IF ~isxdigit(ch) THEN zm_nakhdr(m1)
                    ELSE [m1 EXCEPT !.hdrdata[ndx + 1] =
                                       (zm_decnibble(ch) * 16) % 256,
                                    !.psubstate = "LSPAYLOAD", !.ret = 0]
               ELSE IF m1.hdrfmt = ZBIN \/ m1.hdrfmt = ZBIN32
               THEN LET m2 == [m1 EXCEPT !.hdrdata[ndx + 1] = ch]
                    IN  IF ndx + 1 >= 9 \/ (m2.hdrfmt = ZBIN /\ ndx + 1 >= 7)
                        THEN zm_hdrevent(m2)
                        ELSE [m2 EXCEPT !.psubstate = "PAYLOAD",
                                        !.hdrndx = ndx + 1, !.ret = 0]
               ELSE [m1 EXCEPT !.ret = 0]
          [] m1.psubstate = "LSPAYLOAD" ->
               IF m1.hdrfmt = ZHEX /\ isxdigit(ch)
               THEN LET m2 == [m1 EXCEPT !.hdrdata[ndx + 1] =
                                            @ + zm_decnibble(ch)]
                    IN  IF ndx + 1 >= 7 THEN zm_hdrevent(m2)
                        ELSE [m2 EXCEPT !.psubstate = "PAYLOAD",
                                        !.hdrndx = ndx + 1, !.ret = 0]
               ELSE zm_nakhdr(m1)
          [] OTHER -> [m1 EXCEPT !.ret = 0]

\* zm_data() as it would be if the buffer test were pktlen > ZM_PKTBUFSIZE
zm_data_late(m, ch0) ==
  IF ch0 = ZDLE /\ "ESC" \notin m.flags
  THEN [SetFlag(m, "ESC") EXCEPT !.ret = 0]
  ELSE IF m.pktlen > PKTBUFSIZE THEN [m EXCEPT !.ret = 0 - 1]
  ELSE
    LET esc  == "ESC" \in m.flags
        term == esc /\ ch0 \in {ZCRCW, ZCRCE, ZCRCG, ZCRCQ}
        ch   == IF esc /\ ~term THEN Unescape(ch0) ELSE ch0
        m1   == IF term
                THEN [m EXCEPT !.pkttype = ch0, !.psubstate = "CRC",
                               !.ncrc = IF m.hdrfmt = ZBIN32 THEN 5 ELSE 3]
                ELSE m
        m2   == [ClrFlag(m1, "ESC") EXCEPT
                   !.pktbuf = PutPkt(@, m1.pktlen, ch),
                   !.pktlen = @ + 1]
    IN  IF m2.ncrc = 1
        THEN LET m3 == zm_dataevent(m2)
             IN  [m3 EXCEPT !.pktlen = 0, !.ncrc = 0]
        ELSE IF m2.ncrc > 1 THEN [m2 EXCEPT !.ncrc = @ - 1, !.ret = 0]
        ELSE [m2 EXCEPT !.ret = 0]

zm_data(m, ch0) ==
  IF ch0 = ZDLE /\ "ESC" \notin m.flags
  THEN [SetFlag(m, "ESC") EXCEPT !.ret = 0]
  ELSE IF m.pktlen >= PKTBUFSIZE THEN [m EXCEPT !.ret = 0 - 1]
  ELSE
    LET esc  == "ESC" \in m.flags
        term == esc /\ ch0 \in {ZCRCW, ZCRCE, ZCRCG, ZCRCQ}
        ch   == IF esc /\ ~term THEN Unescape(ch0) ELSE ch0
        m1   == IF term
                THEN [m EXCEPT !.pkttype = ch0, !.psubstate = "CRC",
                               !.ncrc = IF m.hdrfmt = ZBIN32 THEN 5 ELSE 3]
                ELSE m
        m2   == [ClrFlag(m1, "ESC") EXCEPT
                   !.pktbuf = PutPkt(@, m1.pktlen, ch),
                   !.pktlen = @ + 1]
    IN  IF m2.ncrc = 1
        THEN LET m3 == zm_dataevent(m2)
             IN  [m3 EXCEPT !.pktlen = 0, !.ncrc = 0]
        ELSE IF m2.ncrc > 1 THEN [m2 EXCEPT !.ncrc = @ - 1, !.ret = 0]
        ELSE [m2 EXCEPT !.ret = 0]

\* The byte handed to the parser of the current parsing state
Switch(m1, ch) ==
  LET m2 == CASE m1.pstate = "IDLE"   -> zm_idle(m1, ch)
              [] m1.pstate = "HEADER" -> zm_header(m1, ch)
              [] m1.pstate = "DATA"   -> zm_data(m1, ch)
              [] OTHER -> [m1 EXCEPT !.ret = 0 - 1]
  IN  [m2 EXCEPT !.halt = (m2.ret # 0), !.nparsed = @ + 1]

\* the loop as it would be if the cancel test were ncan > 5
ParseStep_sixth(m) ==
  IF m.halt \/ m.rcvndx >= m.rcvlen THEN m
  ELSE
    LET ch == m.rcvbuf[m.rcvndx + 1]
        m1 == [m EXCEPT !.rcvndx = @ + 1, !.ncons = @ + 1,
                        !.crun = IF ch = ASCII_CAN THEN @ + 1 ELSE 0,
                        !.ncan = IF ch = ASCII_CAN THEN @ + 1 ELSE 0]
    IN  IF ch = ASCII_CAN /\ m1.ncan > 5
        THEN [zm_event([m1 EXCEPT !.rcvlen = 0, !.rcvndx = 0], ZME_CANCEL)
                EXCEPT !.halt = TRUE]
        ELSE IF ch # ASCII_XON /\ ch # ASCII_XOFF
        THEN Switch(m1, ch)
        ELSE m1

\* One iteration of the while loop of zm_parse.  halt records that the
\* function has returned from inside the loop; crun, ncons and nparsed only
\* observe it: the length of the run of CAN bytes taken from rcvbuf, the
\* number of bytes taken from rcvbuf in this call and the number of them
\* handed to zm_idle, zm_header or zm_data.
ParseStep(m) ==
  IF m.halt \/ m.rcvndx >= m.rcvlen THEN m
  ELSE
    LET ch == m.rcvbuf[m.rcvndx + 1]
        m1 == [m EXCEPT !.rcvndx = @ + 1, !.ncons = @ + 1,
                        !.crun = IF ch = ASCII_CAN THEN @ + 1 ELSE 0,
                        !.ncan = IF ch = ASCII_CAN THEN @ + 1 ELSE 0]
    IN  IF ch = ASCII_CAN /\ m1.ncan >= 5
        THEN [zm_event([m1 EXCEPT !.rcvlen = 0, !.rcvndx = 0], ZME_CANCEL)
                EXCEPT !.halt = TRUE]
        ELSE IF ch # ASCII_XON /\ ch # ASCII_XOFF
        THEN Switch(m1, ch)
        ELSE m1

\* n iterations of the loop, done as four runs of iterations one after the
\* other; a run that returned from inside the loop ends the loop
RECURSIVE ParseLoop(_, _)
ParseLoop(m, n) ==
  IF n = 0 \/ m.halt THEN m
  ELSE IF n = 1 THEN ParseStep(m)
  ELSE LET q1 == n \div 4
           q2 == n \div 2
           q3 == (3 * n) \div 4
           a  == ParseLoop(m, q1)
           b  == ParseLoop(a, q2 - q1)
           c  == ParseLoop(b, q3 - q2)
       IN  CASE a.halt -> a
             [] b.halt -> b
             [] c.halt -> c
             [] OTHER  -> ParseLoop(c, n - q3)

\* what the callbacks return during the call, and the empty record of what
\* they saw
Begin(m, op, wret, rret) ==
  [m EXCEPT !.op = op, !.wret = wret, !.rret = rret, !.ret = 0,
            !.wr = <<>>, !.rx = <<>>, !.ev = <<>>, !.hd = <<>>,
            !.ncons = 0, !.nparsed = 0, !.halt = FALSE]

\* a callback that was not called returned nothing
End(m) ==
  [m EXCEPT !.wret = IF m.wr = <<>> THEN 0 ELSE @,
            !.rret = IF m.rx = <<>> THEN 0 ELSE @]

\* zm_parse() as it would be if every call restarted the byte parser
zm_parse_restart(m, chunk) ==
  ParseLoop([m EXCEPT !.rcvbuf = chunk, !.rcvlen = Len(chunk), !.rcvndx = 0,
                      !.pstate = "IDLE", !.psubstate = "ZPAD"],
            Len(chunk))

\* zmr_receive(pzmr, len), the host having copied the chunk to rcvbuf
zm_parse(m, chunk) ==
  ParseLoop([m EXCEPT !.rcvbuf = chunk, !.rcvlen = Len(chunk), !.rcvndx = 0],
            Len(chunk))

zmr_receive(m, chunk, wret, rret) ==
  End(zm_parse(Begin(m, "feed", wret, rret), chunk))

(***************************************************************************)
(* The remote sender: the frames it can put on the wire                    *)
(***************************************************************************)
SndEsc(ch) ==
  IF ch = ZDLE \/ (ch % 128) \in {ASCII_DLE, ASCII_XON, ASCII_XOFF, ASCII_GS}
  THEN <<ZDLE, Toggle6(ch)>>
  ELSE IF ch = ASCII_DEL THEN <<ZDLE, ZRUB0>>
  ELSE IF ch = 255 THEN <<ZDLE, ZRUB1>>
  ELSE <<ch>>

RECURSIVE SndEscAll(_)
SndEscAll(bytes) ==
  IF bytes = <<>> THEN <<>> ELSE SndEsc(Head(bytes)) \o SndEscAll(Tail(bytes))

Crc16Bytes(bytes) ==
  LET crc == crc16part(bytes, 0) IN << crc \div 256, crc % 256 >>

Crc32Bytes(bytes) ==
  LET c == crc32part(bytes, CRC32_INIT)
      hi == 65535 - c[1]
      lo == 65535 - c[2]
  IN  << lo % 256, lo \div 256, hi % 256, hi \div 256 >>

RECURSIVE HexAll(_)
HexAll(bytes) ==
  IF bytes = <<>> THEN <<>> ELSE zm_puthex8(Head(bytes)) \o HexAll(Tail(bytes))

\* bad = 1 corrupts the last CRC byte
Corrupt(bytes, bad) ==
  [bytes EXCEPT ![Len(bytes)] = (@ + bad) % 256]

SndHexHdr(type, p, bad) ==
  <<ZPAD, ZPAD, ZDLE, ZHEX>>
  \o HexAll(<<type>> \o p \o Corrupt(Crc16Bytes(<<type>> \o p), bad))
  \o <<ASCII_CR, ASCII_LF>>
  \o (IF type # ZACK /\ type # ZFIN THEN <<ASCII_XON>> ELSE <<>>)

SndBin16Hdr(type, p, bad) ==
  <<ZPAD, ZDLE, ZBIN>>
  \o SndEscAll(<<type>> \o p \o Corrupt(Crc16Bytes(<<type>> \o p), bad))

SndBin32Hdr(type, p, bad) ==
  <<ZPAD, ZDLE, ZBIN32>>
  \o SndEscAll(<<type>> \o p \o Corrupt(Crc32Bytes(<<type>> \o p), bad))

SndData16(payload, term, bad) ==
  SndEscAll(payload) \o <<ZDLE, term>>
  \o SndEscAll(Corrupt(Crc16Bytes(payload \o <<term>>), bad))

SndData32(payload, term, bad) ==
  SndEscAll(payload) \o <<ZDLE, term>>
  \o SndEscAll(Corrupt(Crc32Bytes(payload \o <<term>>), bad))

P_HI   == <<104, 105>>
P_ESC  == <<24, 127>>
P_INFO == <<97, 0, 50>>
P_ATTN == <<33, 0>>

H_RQINIT == SndHexHdr(ZRQINIT, g_zeroes, 0)
H_SINIT  == SndBin16Hdr(ZSINIT, g_zeroes, 0)
H_FILE   == SndBin16Hdr(ZFILE, g_zeroes, 0)
H_DATA(pos)   == SndBin16Hdr(ZDATA, zm_be32toby(pos), 0)
H_DATA32(pos) == SndBin32Hdr(ZDATA, zm_be32toby(pos), 0)
H_EOF(pos)    == SndHexHdr(ZEOF, zm_be32toby(pos), 0)
H_FIN    == SndHexHdr(ZFIN, g_zeroes, 0)
H_NAK    == SndHexHdr(ZNAK, g_zeroes, 0)
H_ACK    == SndHexHdr(ZACK, g_zeroes, 0)

\* headers whose CRC does not verify
BadHex   == SndHexHdr(ZFILE, g_zeroes, 1)
BadBin16 == SndBin16Hdr(ZFIN, g_zeroes, 1)
BadBin32 == SndBin32Hdr(ZDATA, g_zeroes, 1)
BadHeaders == {BadHex, BadBin16, BadBin32}

D_INFO == SndData16(P_INFO, ZCRCW, 0)
D_ATTN == SndData16(P_ATTN, ZCRCW, 0)
D_BAD16 == SndData16(P_HI, ZCRCW, 1)
D_BAD32 == SndData32(P_HI, ZCRCG, 1)

\* CRC-valid file data subpackets, as [bytes, payload, term]
Packet(payload, term, fmt) ==
  [bytes |-> IF fmt = ZBIN32 THEN SndData32(payload, term, 0)
             ELSE SndData16(payload, term, 0),
   payload |-> payload, term |-> term, fmt |-> fmt]

GoodPackets ==
  { Packet(P_HI, t, ZBIN) : t \in {ZCRCE, ZCRCG, ZCRCQ, ZCRCW} }
  \cup { Packet(P_ESC, ZCRCW, ZBIN), Packet(P_HI, ZCRCQ, ZBIN32) }

CAN5 == <<ASCII_CAN, ASCII_CAN, ASCII_CAN, ASCII_CAN, ASCII_CAN>>
CAN4 == <<ASCII_CAN, ASCII_CAN, ASCII_CAN, ASCII_CAN>>
OO   == <<CH_O, CH_O>>

\* ZFILE, the file information and ZDATA sent back to back
Preamble(pos)   == H_FILE \o D_INFO \o H_DATA(pos)
Preamble32(pos) == H_FILE \o D_INFO \o H_DATA32(pos)

\* file positions the sender names in ZDATA and ZEOF
Positions == {0, 2, 3}

\* the chunks the host may hand to zmr_receive()
Tokens ==
  { H_RQINIT, H_SINIT, H_SINIT \o D_ATTN, H_FILE, H_FILE \o D_INFO,
    H_FIN, H_FIN \o OO, H_NAK, H_ACK }
  \cup { Preamble(0), Preamble(3), Preamble32(0) }
  \cup { H_DATA(pos) : pos \in Positions }
  \cup { H_EOF(2), H_EOF(3) }
  \cup BadHeaders
  \cup { D_INFO, D_BAD16, D_BAD32 }
  \cup { pk.bytes : pk \in GoodPackets }
  \cup { CAN5, CAN5 \o OO, CAN4, OO, <<CH_O>>, <<ASCII_XON>>, <<ZPAD>> }
  \cup { SubSeq(H_FIN, 1, 9), SubSeq(H_FIN, 10, Len(H_FIN)),
         SubSeq(D_BAD16, 1, 3), SubSeq(D_BAD16, 4, Len(D_BAD16)) }

\* what the write and on_receive callbacks return during one call
Callbacks == { <<0, 0>>, <<0 - EIO, 0>>, <<0, 0 - 1>> }

(***************************************************************************)
(* zmr_initialize(): malloc() without clearing; only evtable, state,       *)
(* pstate, psubstate, the callbacks and timeout are assigned.  The other   *)
(* fields hold whatever the memory held: all zero, or the values of        *)
(* Garbage.                                                                *)
(***************************************************************************)
Zeroed ==
  [ flags |-> {}, ncan |-> 0, nerrors |-> 0, ntimeouts |-> 0, offset |-> 0,
    rcaps |-> 0, hdrfmt |-> 0, f0 |-> 0 ]

Garbage ==
  [ flags |-> {"OO", "CRKOK", "ESCCTRL"}, ncan |-> 2,
    nerrors |-> MAXERRORS,
    ntimeouts |-> 1, offset |-> 3, rcaps |-> 35, hdrfmt |-> ZBIN32,
    f0 |-> ZCNL ]

MemoryImages == {Zeroed, Garbage}

zmr_initialize(mem) ==
  [ state |-> "START", pstate |-> "IDLE", psubstate |-> "ZPAD",
    timeout |-> CONNTIME,
    flags |-> mem.flags, ncan |-> mem.ncan, nerrors |-> mem.nerrors,
    ntimeouts |-> mem.ntimeouts, offset |-> mem.offset, rcaps |-> mem.rcaps,
    hdrfmt |-> mem.hdrfmt, f0 |-> mem.f0,
    f1 |-> 0, scaps |-> 0, crc |-> 0, ncrc |-> 0, hdrndx |-> 0,
    hdrdata |-> <<0, 0, 0, 0, 0, 0, 0, 0, 0>>, pkttype |-> 0,
    rcvlen |-> 0, rcvndx |-> 0, rcvbuf |-> <<>>,
    pktlen |-> 0, pktbuf |-> <<>>, attn |-> <<>>,
    op |-> "init", wret |-> 0, rret |-> 0, ret |-> 0,
    wr |-> <<>>, rx |-> <<>>, ev |-> <<>>, hd |-> <<>>, ncons |-> 0,
    nparsed |-> 0, crun |-> 0, args |-> <<>>,
    halt |-> FALSE ]

Init ==
  /\ \E mem \in MemoryImages : zm = zmr_initialize(mem)
  /\ total = 0
  /\ nfeeds = 0

\* number of payload bytes for which on_receive returned >= 0 in the call
RECURSIVE SumLen(_)
SumLen(rx) == IF rx = <<>> THEN 0 ELSE Len(Head(rx).data) + SumLen(Tail(rx))

Delivered(m) == IF m.rret < 0 THEN 0 ELSE SumLen(m.rx)

FeedFrom(toks) ==
  /\ nfeeds < MaxFeeds
  /\ \E chunk \in toks, cb \in Callbacks :
       /\ zm' = zmr_receive(zm, chunk, cb[1], cb[2])
       /\ total' = total + Delivered(zm')
  /\ nfeeds' = nfeeds + 1

Feed == FeedFrom(Tokens)

\* the host reports a timeout: zm_event(pzm, ZME_TIMEOUT)
on_timeout(m, wret) == End(zm_event(Begin(m, "timeout", wret, 0), ZME_TIMEOUT))

Timeout ==
  /\ nfeeds < MaxFeeds
  /\ \E wret \in {0, 0 - EIO} : zm' = on_timeout(zm, wret)
  /\ nfeeds' = nfeeds + 1
  /\ UNCHANGED total

Next == Feed \/ Timeout

Spec == Init /\ [][Next]_vars

(***************************************************************************)
(* Chunking.  A second specification feeds a few long chunks, so that      *)
(* every way of cutting each of them in two can be compared with feeding   *)
(* it whole.                                                               *)
(***************************************************************************)
Probes ==
  { H_FIN \o OO, CAN5 \o OO, Preamble(0), H_EOF(3) \o H_FIN,
    Packet(P_ESC, ZCRCW, ZBIN).bytes \o Packet(P_HI, ZCRCQ, ZBIN).bytes,
    Preamble32(0) \o Packet(P_HI, ZCRCQ, ZBIN32).bytes, D_BAD16, BadHex }

ProbeFeed == FeedFrom(Probes)

NextChunk == ProbeFeed \/ Timeout

SpecChunk == Init /\ [][NextChunk]_vars

\* the session without the receive window and the record of the last call
Core(m) ==
  [m EXCEPT !.rcvbuf = <<>>, !.rcvlen = 0, !.rcvndx = 0, !.op = "",
            !.wret = 0, !.rret = 0, !.ret = 0, !.wr = <<>>, !.rx = <<>>,
            !.ev = <<>>, !.hd = <<>>, !.ncons = 0, !.nparsed = 0,
            !.halt = FALSE]

\* feeding chunk to m in two calls, cut after k bytes, gives what feeding it
\* in one call gave (w): the same events, writes, deliveries, status and
\* session
SameAsWhole(m, w, k) ==
  LET a == zmr_receive(m, SubSeq(w.rcvbuf, 1, k), w.wret, w.rret)
      b == zmr_receive(a, SubSeq(w.rcvbuf, k + 1, Len(w.rcvbuf)),
                       w.wret, w.rret)
  IN  /\ a.ret = 0
      /\ b.ret = w.ret
      /\ a.ev \o b.ev = w.ev
      /\ a.hd \o b.hd = w.hd
      /\ a.wr \o b.wr = w.wr
      /\ a.rx \o b.rx = w.rx
      /\ Core(b) = Core(w)

IsFeed == nfeeds' = nfeeds + 1 /\ zm'.op = "feed"

\* C1 (as stated): for every chunk fed in one call and every cut of it in
\* two non-empty chunks, the two calls dispatch the same events, write
\* the same replies and end in the same state as the one call.
C1_ChunkingInvariance ==
  [][IsFeed => \A k \in 1 .. Len(zm'.rcvbuf) - 1 : SameAsWhole(zm, zm', k)]_vars

\* C1 (amended): the same, for the chunks of which the one call consumed
\* every byte, that is, no transition discarded the receive window, no
\* cancel was raised and no non-zero status was returned before the last
\* byte of the chunk.
C1_ChunkingInvarianceConsumed ==
  [][(IsFeed /\ zm'.ncons = Len(zm'.rcvbuf))
       => \A k \in 1 .. Len(zm'.rcvbuf) - 1 : SameAsWhole(zm, zm', k)]_vars

\* a chunk of three frames was consumed whole and dispatched three events
C1_Witness ==
  /\ zm.op = "feed" /\ zm.rcvbuf = Preamble(0)
  /\ zm.ncons = Len(zm.rcvbuf) /\ Len(zm.ev) = 3
  /\ zm.state = "READING" /\ zm.pstate = "DATA"

(***************************************************************************)
(* File data                                                               *)
(***************************************************************************)
Events == { zm.ev[i] : i \in DOMAIN zm.ev }

\* a DATARCVD event handled in READING
IsFileData(e) == e.event = ZME_DATARCVD /\ e.state = "READING"

\* C2: for every DATARCVD event handled in READING with flags.CRKOK clear,
\* on_receive is not called, offset is unchanged and nerrors increases by
\* exactly 1.
C2_BadCrcNotDelivered ==
  \A e \in Events :
    (IsFileData(e) /\ ~ e.crkok)
      => /\ e.rx = <<>>
         /\ e.offset2 = e.offset
         /\ e.nerrors2 = e.nerrors + 1

\* a packet sent with a wrong CRC was handled in READING
C2_Witness ==
  /\ zm.op = "feed" /\ zm.rcvbuf \in {D_BAD16, D_BAD32}
  /\ \E e \in Events : IsFileData(e) /\ ~ e.crkok /\ e.data = P_HI

\* the chunk is one CRC-valid subpacket and was handled as one in READING
OnePacket(pk) ==
  /\ zm.op = "feed" /\ zm.rcvbuf = pk.bytes
  /\ Len(zm.ev) = 1 /\ IsFileData(zm.ev[1]) /\ zm.ev[1].crkok

\* on_receive was called once, with the bytes of the packet buffer, which
\* are the bytes the sender escaped
DeliveredOnce(e) ==
  /\ Len(e.rx) = 1
  /\ e.rx[1].data = e.data
  /\ \A pk \in GoodPackets : OnePacket(pk) => e.rx[1].data = pk.payload

\* C3 (as stated): for every CRC-valid data subpacket handled in READING,
\* on_receive is called exactly once with exactly the un-escaped payload
\* of the subpacket, and afterwards offset = the offset before + the
\* packet length.
C3_DeliveredAndAdvanced ==
  \A e \in Events :
    (IsFileData(e) /\ e.crkok)
      => DeliveredOnce(e) /\ e.offset2 = e.offset + Len(e.data)

\* C3 (amended): for every CRC-valid data subpacket handled in READING,
\* on_receive is called exactly once with exactly the un-escaped payload
\* of the subpacket, and if on_receive returns a non-negative value,
\* afterwards offset = the offset before + the packet length.
C3_DeliveredAndAdvancedOnSuccess ==
  \A e \in Events :
    (IsFileData(e) /\ e.crkok)
      => /\ DeliveredOnce(e)
         /\ zm.rret >= 0 => e.offset2 = e.offset + Len(e.data)

\* a packet whose payload needed escaping was delivered and acknowledged
C3_Witness ==
  /\ OnePacket(Packet(P_ESC, ZCRCW, ZBIN))
  /\ zm.rret >= 0
  /\ zm.rx = << [data |-> P_ESC, zcnl |-> FALSE] >>
  /\ zm.ev[1].offset2 = zm.ev[1].offset + 2

\* C4: in every reachable state with state = READING, offset equals the
\* number of file payload bytes for which on_receive has returned
\* successfully since zmr_initialize().
C4_OffsetIsDelivered == zm.state = "READING" => zm.offset = total

(***************************************************************************)
(* Cancellation                                                            *)
(***************************************************************************)
\* C5: when 5 consecutive CAN bytes are received, the call returns a
\* negative status (-ECANCELED) and writes nothing but, at most, the
\* cancel sequence.
C5_CancelTerminates ==
  \A e \in Events :
    e.event = ZME_CANCEL
      => e.ret < 0 /\ \A k \in DOMAIN e.wr : e.wr[k] = g_canistr

\* the bytes among the first n of the chunk that are neither XON nor XOFF
RECURSIVE Parsable(_, _)
Parsable(buf, n) ==
  IF n = 0 THEN 0
  ELSE Parsable(buf, n - 1)
       + (IF buf[n] = ASCII_XON \/ buf[n] = ASCII_XOFF THEN 0 ELSE 1)

\* C6: the 5th consecutive CAN byte raises the CANCEL event in the call
\* that consumes it, it is not handed to the IDLE/HEADER/DATA parser, and
\* the receive window is reset, so the call consumes no byte after it.
C6_CancelLatency ==
  (zm.op = "feed" /\ zm.ncons > 0 /\ zm.crun >= 5)
    => /\ zm.ev # <<>>
       /\ zm.ev[Len(zm.ev)].event = ZME_CANCEL
       /\ zm.rcvbuf[zm.ncons] = ASCII_CAN
       /\ zm.nparsed = Parsable(zm.rcvbuf, zm.ncons - 1)
       /\ zm.rcvlen = 0 /\ zm.rcvndx = 0

\* the 5th CAN arrived in READING, with bytes left in the chunk
C6_Witness ==
  /\ zm.op = "feed" /\ zm.crun = 5 /\ zm.ncons < Len(zm.rcvbuf)
  /\ zm.ev # <<>> /\ zm.ev[Len(zm.ev)].event = ZME_CANCEL
  /\ zm.ev[Len(zm.ev)].state = "READING"

(***************************************************************************)
(* Headers                                                                 *)
(***************************************************************************)
Headers == { zm.hd[i] : i \in DOMAIN zm.hd }

\* C7: a header (ZHEX, ZBIN or ZBIN32) whose CRC check fails leaves the
\* receive state unchanged, runs no transition action (no event is
\* dispatched and nothing but the parser position changes), writes exactly
\* one ZNAK hex header with payload 00 00 00 00, and returns the parser
\* to IDLE/ZPAD.
C7_BadHeaderNaked ==
  \A h \in Headers :
    ~ h.crcok
      => /\ h.next = h.state
         /\ h.nev = 0
         /\ h.same
         /\ h.wr = << HexHdrBytes(ZNAK, g_zeroes) >>
         /\ h.pstate = "IDLE" /\ h.psubstate = "ZPAD"

\* a ZBIN32 header sent with a wrong CRC was refused in READING
C7_Witness ==
  /\ zm.op = "feed" /\ zm.rcvbuf = BadBin32
  /\ Len(zm.hd) = 1 /\ ~ zm.hd[1].crcok
  /\ zm.hd[1].hdrfmt = ZBIN32 /\ zm.hd[1].state = "READING"

\* the ZFERR header zmr_filedata() sends
ZferrHdr == HexHdrBytes(ZFERR, zm_be32toby(0 - EPERM))

\* a write is a ZACK hex header
IsZack(w) == Len(w) > 6 /\ SubSeq(w, 1, 6) = SubSeq(HexHdrBytes(ZACK, g_zeroes), 1, 6)

\* the event is a CRC-valid packet in READING that on_receive refused
Refused(e) ==
  IsFileData(e) /\ e.crkok /\ e.rx # <<>> /\ zm.rret < 0

\* all that C8 says but the status
AbortedToFinish(e) ==
  /\ e.next = "FINISH"
  /\ \E k \in DOMAIN e.wr : e.wr[k] = ZferrHdr
  /\ e.offset2 = e.offset
  /\ \A k \in DOMAIN e.wr : ~ IsZack(e.wr[k])

\* C8: when on_receive returns a negative value for a CRC-valid packet in
\* READING, the state becomes FINISH, a ZFERR header is written, offset is
\* not advanced, no ZACK is written, and the call returns a negative
\* status.
C8_ReceiveFailureAborts ==
  \A e \in Events : Refused(e) => AbortedToFinish(e) /\ e.ret < 0

\* the abort itself, whatever status is returned
AbortedExceptStatus ==
  \A e \in Events : Refused(e) => AbortedToFinish(e)

FinStates == {"START", "CRCWAIT", "READREADY", "READING", "FINISH"}

\* the last event of the session's last call was a ZFIN header handled in
\* one of FinStates
FinHandled(m) ==
  /\ m.op = "feed" /\ m.ev # <<>>
  /\ m.ev[Len(m.ev)].event = ZFIN
  /\ m.ev[Len(m.ev)].state \in FinStates

\* C9: a valid ZFIN header received in START, CRCWAIT, READREADY, READING
\* or FINISH moves the state to FINISH with the parser in IDLE, writes one
\* ZFIN hex header and sets flags.OO; and if the bytes fed next are "OO",
\* that call returns XFRDONE.
C9_GracefulFinish ==
  [][ /\ FinHandled(zm') =>
         LET e == zm'.ev[Len(zm'.ev)]
         IN  /\ e.next = "FINISH" /\ e.pstate = "IDLE"
             /\ e.wr = << HexHdrBytes(ZFIN, g_zeroes) >>
             /\ e.oo
             /\ zm'.state = "FINISH" /\ zm'.pstate = "IDLE"
             /\ "OO" \in zm'.flags
      /\ (FinHandled(zm) /\ zm'.op = "feed" /\ zm'.rcvbuf = OO
             /\ nfeeds' = nfeeds + 1)
           => zm'.ret = ZM_XFRDONE ]_vars

\* "OO" was fed after a ZFIN handled in FINISH state and ended the transfer
C9_Witness ==
  /\ zm.op = "feed" /\ zm.rcvbuf = OO /\ zm.ret = ZM_XFRDONE
  /\ Len(zm.ev) = 1 /\ zm.ev[1].event = ZME_OO /\ zm.ev[1].state = "FINISH"

\* C10: the status a call returns is 0, 1 (XFRDONE) or negative, and it is
\* XFRDONE only when the OO event was processed in state FINISH.
C10_StatusCodes ==
  zm.op = "feed"
    => /\ zm.ret \in {0, ZM_XFRDONE} \/ zm.ret < 0
       /\ zm.ret = ZM_XFRDONE
            => /\ zm.ev # <<>>
               /\ zm.ev[Len(zm.ev)].event = ZME_OO
               /\ zm.ev[Len(zm.ev)].state = "FINISH"

(***************************************************************************)
(* Data errors.  A third specification feeds runs of packets with a wrong  *)
(* CRC, each followed by the ZDATA header the sender answers ZRPOS with,   *)
(* so that nerrors reaches MAXERRORS.                                      *)
(***************************************************************************)
Retry(pos) == D_BAD16 \o H_DATA(pos)

RECURSIVE Retries(_, _)
Retries(pos, k) == IF k = 0 THEN <<>> ELSE Retry(pos) \o Retries(pos, k - 1)

ErrProbes ==
  { Preamble(0) \o Retries(0, MAXERRORS), Preamble(3) \o Retries(3, MAXERRORS),
    H_SINIT \o D_ATTN \o Preamble(0), D_BAD16, Retry(0) }

ErrFeed == FeedFrom(ErrProbes)

SpecErrors == Init /\ [][ErrFeed]_vars

\* what zmr_fileerror writes for ZRPOS(offset): attn, if set, then the header
RposWrites(attn, offset) ==
  (IF attn # <<>> THEN <<AttnChars(attn)>> ELSE <<>>)
  \o <<HexHdrBytes(ZRPOS, zm_be32toby(offset))>>

\* a DATARCVD event handled in READING with flags.CRKOK clear
IsBadData(e) == IsFileData(e) /\ ~ e.crkok

\* C11: in READING, a packet that fails its CRC while nerrors, once
\* incremented, is at most MAXERRORS moves the state to READREADY with the
\* parser in IDLE and, the write callback accepting, writes attn (if set)
\* and then ZRPOS(offset); the failure that makes nerrors exceed MAXERRORS
\* writes exactly the 18-byte cancel sequence and the call returns -EIO.
C11_DataErrorRetryBound ==
  \A e \in Events :
    IsBadData(e)
      => IF e.nerrors + 1 <= MAXERRORS
         THEN /\ e.next = "READREADY"
              /\ e.pstate = "IDLE"
              /\ zm.wret >= 0 => e.wr = RposWrites(e.attn, e.offset)
         ELSE /\ e.wr = <<g_canistr>>
              /\ Len(g_canistr) = 18
              /\ e.ret = 0 - EIO
              /\ zm.ret = 0 - EIO

\* the packet that fails after MAXERRORS failures was cancelled
C11_Witness ==
  \E e \in Events :
    IsBadData(e) /\ e.nerrors = MAXERRORS /\ e.wr = <<g_canistr>>

(***************************************************************************)
(* Timeouts.                                                               *)
(***************************************************************************)
\* the ZRINIT hex header of zmr_zrinit
ZrinitHdr(rcaps) ==
  HexHdrBytes(ZRINIT, << PKTBUFSIZE % 256, (PKTBUFSIZE \div 256) % 256, 0, rcaps >>)

\* a TIMEOUT event handled in the given receive state
IsTimeoutIn(e, state) == e.event = ZME_TIMEOUT /\ e.state = state

\* C12: each of the first 4 TIMEOUT events in START resends ZRINIT, keeps
\* the state START and returns OK; only a TIMEOUT beyond that limit fails
\* with -ETIMEDOUT.
C12_StartTimeoutRetries ==
  \A e \in Events :
    IsTimeoutIn(e, "START")
      => IF e.ntimeouts + 1 <= 4
         THEN /\ e.next = "START"
              /\ zm.wret >= 0 => (e.ret = 0 /\ e.wr = <<ZrinitHdr(zm.rcaps)>>)
         ELSE e.ret = 0 - ETIMEDOUT

\* A fourth specification lets the timer expire MaxTimeouts times in a row
\* after the chunks that open a file.
MaxTimeouts == 3

TimeoutProbes == { H_FILE \o D_INFO, Preamble(0), Preamble(3), H_FIN }

OpenFeed == FeedFrom(TimeoutProbes)

TimeoutRun ==
  /\ nfeeds < MaxFeeds + MaxTimeouts
  /\ \E wret \in {0, 0 - EIO} : zm' = on_timeout(zm, wret)
  /\ nfeeds' = nfeeds + 1
  /\ UNCHANGED total

SpecTimeouts == Init /\ [][OpenFeed \/ TimeoutRun]_vars

FileStates == {"CRCWAIT", "READREADY", "READING"}

\* C13: in CRCWAIT, READREADY and READING the first 2 TIMEOUT events are
\* answered by a retry (ZCRC in CRCWAIT, ZRPOS(offset) otherwise); the
\* TIMEOUT that makes the count exceed 2 fails with -ETIMEDOUT.
C13_FileTimeoutFails ==
  \A e \in Events :
    (e.event = ZME_TIMEOUT /\ e.state \in FileStates)
      => IF e.ntimeouts + 1 <= 2
         THEN zm.wret >= 0 =>
                e.wr = << IF e.state = "CRCWAIT"
                          THEN HexHdrBytes(ZCRC, g_zeroes)
                          ELSE HexHdrBytes(ZRPOS, zm_be32toby(e.offset)) >>
         ELSE e.ret = 0 - ETIMEDOUT

(***************************************************************************)
(* The position of a ZDATA header.                                         *)
(***************************************************************************)
\* a ZDATA header dispatched in READREADY or READING
IsZdata(e) == e.event = ZDATA /\ e.state \in {"READREADY", "READING"}

HdrPos(e) == zm_bytobe32(SubSeq(e.hdrdata, 2, 5))

Mismatch(e) == IsZdata(e) /\ HdrPos(e) # e.offset

Match(e) == IsZdata(e) /\ HdrPos(e) = e.offset

\* no event of the log delivers anything before a matching ZDATA, from
\* position i of the log on
QuietFrom(ev, i) ==
  \A j \in (i + 1)..Len(ev) :
    (\A k \in (i + 1)..(j - 1) : ~ Match(ev[k])) => ev[j].rx = <<>>

\* C14: a valid ZDATA header in READREADY or READING arms the DATA parser
\* state exactly when its position equals offset; if it differs, attn (if
\* set) and then ZRPOS(offset) are written (the write callback accepting)
\* and the parser stays IDLE.
ZdataArmsOnMatch ==
  \A e \in Events :
    IsZdata(e)
      => /\ (e.pstate = "DATA") <=> (HdrPos(e) = e.offset)
         /\ Mismatch(e)
              => /\ e.pstate = "IDLE"
                 /\ e.rx = <<>>
                 /\ zm.wret >= 0 => e.wr = RposWrites(e.attn, e.offset)

\* C14, the bytes that follow: after a ZDATA whose position differs, in the
\* same call and in the next one, nothing is delivered to on_receive before
\* a ZDATA with position = offset is dispatched.
NothingUntilMatch ==
  /\ \A i \in DOMAIN zm.ev : Mismatch(zm.ev[i]) => QuietFrom(zm.ev, i)
  /\ (zm.ev # <<>> /\ Mismatch(zm.ev[Len(zm.ev)]))
       => /\ QuietFrom(zm'.ev, 0)
          /\ (\A k \in DOMAIN zm'.ev : ~ Match(zm'.ev[k])) => total' = total

C14_ZdataPositionCheck ==
  [](ZdataArmsOnMatch) /\ [][NothingUntilMatch]_vars

\* a ZDATA whose position differs was answered with attn and ZRPOS(offset)
C14_Witness ==
  \E e \in Events :
    Mismatch(e) /\ e.attn # <<>> /\ e.wr = RposWrites(e.attn, e.offset)

(***************************************************************************)
(* ZRQINIT and ZNAK in START.                                              *)
(***************************************************************************)
\* the write is a hex header of the given type and payload: ZPAD ZPAD ZDLE
\* ZHEX, then the type and the 4 payload bytes as two hex digits each
IsHexHdrOf(w, type, payload) ==
  /\ Len(w) >= 14
  /\ SubSeq(w, 1, 4) = <<ZPAD, ZPAD, ZDLE, ZHEX>>
  /\ SubSeq(w, 5, 14) = HexAll(<<type>> \o payload)

\* ZRQINIT or ZNAK dispatched in START
IsInitRequest(e) == e.state = "START" /\ e.event \in {ZRQINIT, ZNAK}

\* C15: a valid ZRQINIT header received in START leaves the state START and
\* writes exactly one ZRINIT hex header whose payload is [lo(PKTBUFSIZE),
\* hi(PKTBUFSIZE), 0x00, rcaps]; the same ZRINIT is written for ZNAK.
C15_RqinitResendsZrinit ==
  \A e \in Events :
    IsInitRequest(e)
      => /\ e.next = "START"
         /\ Len(e.wr) = 1
         /\ IsHexHdrOf(e.wr[1], ZRINIT,
                       << PKTBUFSIZE % 256, PKTBUFSIZE \div 256, 0, zm.rcaps >>)
         /\ e.wr[1] = ZrinitHdr(zm.rcaps)

\* a ZRQINIT was answered in START, with rcaps not zero
C15_Witness ==
  /\ zm.rcaps # 0
  /\ \E e \in Events :
       IsInitRequest(e) /\ e.event = ZRQINIT /\ e.wr = <<ZrinitHdr(zm.rcaps)>>

(***************************************************************************)
(* The packet buffer.  A fifth specification fills pktbuf: a chunk is at   *)
(* most RCVBUFSIZE bytes, so that the buffer is full after two chunks.     *)
(***************************************************************************)
MaxFills == 4

\* n bytes that need no escape
Fill(n) == [i \in 1..n |-> Head(P_HI)]

\* ZFILE arms the DATA parser state; the rest of the chunk is packet data
O_OPEN == H_FILE \o Fill(RCVBUFSIZE - Len(H_FILE))

\* what is left of the packet buffer after O_OPEN
RestLen == PKTBUFSIZE - (RCVBUFSIZE - Len(H_FILE))

OverflowProbes ==
  { O_OPEN, Fill(RestLen), Fill(RestLen + 1), <<Head(P_HI)>>, <<ZDLE>>,
    <<ZDLE, ZCRCW>>, <<ASCII_XON>>, D_INFO }

FillFeed ==
  /\ nfeeds < MaxFills
  /\ \E chunk \in OverflowProbes :
       /\ zm' = zmr_receive(zm, chunk, 0, 0)
       /\ total' = total + Delivered(zm')
  /\ nfeeds' = nfeeds + 1

FillTimeout ==
  /\ nfeeds < MaxFills
  /\ zm' = on_timeout(zm, 0)
  /\ nfeeds' = nfeeds + 1
  /\ UNCHANGED total

SpecOverflow == Init /\ [][FillFeed \/ FillTimeout]_vars

\* the packet buffer is full and the parser is in DATA
Overflowed(m) == m.pstate = "DATA" /\ m.pktlen = PKTBUFSIZE

\* the number of bytes of the chunk up to and including the first data
\* byte, 0 if there is none: XON and XOFF are skipped and a ZDLE outside of
\* an escape sequence is the prefix of the byte that follows
RECURSIVE DataByteAt(_, _)
DataByteAt(chunk, esc) ==
  IF chunk = <<>> THEN 0
  ELSE IF Head(chunk) \in {ASCII_XON, ASCII_XOFF}
            \/ (Head(chunk) = ZDLE /\ ~ esc)
  THEN LET n == DataByteAt(Tail(chunk), esc \/ Head(chunk) = ZDLE)
       IN  IF n = 0 THEN 0 ELSE n + 1
  ELSE 1

\* no more than PKTBUFSIZE bytes are in the packet buffer
PacketFits == zm.pktlen <= PKTBUFSIZE /\ Len(zm.pktbuf) <= PKTBUFSIZE

\* a call made with the packet buffer full fails at the first data byte of
\* the chunk, stores nothing and leaves the buffer full
FullBufferFails ==
  \A chunk \in OverflowProbes :
    (Overflowed(zm) /\ zm' = zmr_receive(zm, chunk, 0, 0)
       /\ DataByteAt(chunk, "ESC" \in zm.flags) > 0)
      => /\ zm'.ret < 0
         /\ zm'.ncons = DataByteAt(chunk, "ESC" \in zm.flags)
         /\ zm'.pktbuf = zm.pktbuf
         /\ Overflowed(zm')

MaxPuts == 2

InitEscape ==
  /\ \E fl \in SUBSET {"ESCCTRL", "ATSIGN"} :
       zm = [op |-> "init", flags |-> fl, before |-> fl, ch |-> 0, out |-> <<>>]
  /\ total = 0
  /\ nfeeds = 0

PutZdle ==
  /\ nfeeds < MaxPuts
  /\ \E ch \in Byte :
       zm' = zm_putzdle([zm EXCEPT !.op = "putzdle", !.before = zm.flags,
                                   !.ch = ch, !.out = <<>>], ch)
  /\ nfeeds' = nfeeds + 1
  /\ UNCHANGED total

SpecEscape == InitEscape /\ [][PutZdle]_vars

\* the escape rule of zm_header and zm_data: the byte after a ZDLE is ZRUB0
\* for 0x7f, ZRUB1 for 0xff and has bit 6 toggled otherwise
RECURSIVE Decode(_)
Decode(bytes) ==
  IF bytes = <<>> THEN <<>>
  ELSE IF Head(bytes) = ZDLE /\ Len(bytes) >= 2
  THEN <<Unescape(bytes[2])>> \o Decode(Tail(Tail(bytes)))
  ELSE <<Head(bytes)>> \o Decode(Tail(bytes))

\* the bytes that may not appear on the wire without a ZDLE before them
Forbidden(flags, b) ==
  \/ b = ZDLE
  \/ (b % 128) \in {ASCII_DLE, ASCII_XON, ASCII_XOFF, ASCII_GS, ASCII_DEL}
  \/ b = 255
  \/ ((b % 128) = ASCII_CR /\ "ATSIGN" \in flags)
  \/ ((b % 128) < 32 /\ "ESCCTRL" \in flags)

\* the bytes of the output that are not the second byte of an escape
Unescaped(out) == IF Head(out) = ZDLE THEN {} ELSE {Head(out)}

\* C17: for every byte and every combination of flags.ESCCTRL and
\* flags.ATSIGN, the output of zm_putzdle decoded with the parser's escape
\* rule is the byte, no byte of the forbidden set is emitted without a ZDLE
\* before it, and the byte after a ZDLE is not a packet terminator.
C17_EscapeRoundTrip ==
  zm.op = "putzdle"
    => /\ Decode(zm.out) = <<zm.ch>>
       /\ Len(zm.out) \in {1, 2}
       /\ \A b \in Unescaped(zm.out) : ~ Forbidden(zm.before, b)
       /\ Len(zm.out) = 2
            => /\ zm.out[2] \notin {ZCRCE, ZCRCG, ZCRCQ, ZCRCW, ZDLE}
               /\ ~ Forbidden(zm.before, zm.out[2])

\* a CR put after an '@' was escaped
C17_Witness ==
  /\ zm.op = "putzdle"
  /\ nfeeds = MaxPuts
  /\ zm.ch = ASCII_CR
  /\ "ATSIGN" \in zm.before
  /\ zm.out = <<ZDLE, Toggle6(ASCII_CR)>>

(***************************************************************************)
(* The headers of the frame encoders.  A seventh specification hands the   *)
(* bytes an encoder composes to the parser of a new session.               *)
(***************************************************************************)
MaxLoops == 1

HdrTypes == {ZRQINIT, ZRINIT, ZACK, ZNAK, ZRPOS, ZFIN}

HdrPayloads == { g_zeroes, zm_be32toby(3), <<CH_AT, ASCII_CR, 255, ZDLE>> }

\* the header of the format, composed with the flags the sender has
Encoded(fmt, fl, type, buffer) ==
  CASE fmt = ZHEX   -> HexHdrBytes(type, buffer)
    [] fmt = ZBIN   -> zm_sendbin16hdr([flags |-> fl, out |-> <<>>],
                                       type, buffer).out
    [] fmt = ZBIN32 -> zm_sendbin32hdr([flags |-> fl, out |-> <<>>],
                                       type, buffer).out

EncodedFeed ==
  /\ nfeeds < MaxLoops
  /\ zm.pstate = "IDLE" /\ zm.psubstate = "ZPAD"
  /\ \E fmt \in {ZHEX, ZBIN, ZBIN32}, fl \in SUBSET {"ESCCTRL", "ATSIGN"},
        type \in HdrTypes, buffer \in HdrPayloads :
       /\ zm' = zmr_receive(zm, Encoded(fmt, fl, type, buffer), 0, 0)
       /\ total' = total + Delivered(zm')
  /\ nfeeds' = nfeeds + 1

SpecHeaders == Init /\ [][EncodedFeed]_vars

\* the parser completed one header, of the format, whose CRC check passed,
\* and dispatched the event of its type
Verified(m, fmt, type) ==
  /\ Len(m.hd) = 1
  /\ m.hd[1].hdrfmt = fmt
  /\ m.hd[1].type = type
  /\ m.hd[1].crcok
  /\ m.ev # <<>> /\ m.ev[1].event = type

\* C18: for every header type and 4-byte payload, the header composed by
\* zm_sendhexhdr, zm_sendbin16hdr or zm_sendbin32hdr passes the parser's CRC
\* check (CRC-16 of the 7 decoded bytes 0, CRC-32 of the 9 decoded bytes
\* 0xDEBB20E3), so that the parser raises the event of its type and writes
\* no ZNAK.
C18_EncodedHeadersVerify ==
  \A fmt \in {ZHEX, ZBIN, ZBIN32}, fl \in SUBSET {"ESCCTRL", "ATSIGN"},
     type \in HdrTypes, buffer \in HdrPayloads :
    (zm.op = "feed" /\ zm.rcvbuf = Encoded(fmt, fl, type, buffer))
      => Verified(zm, fmt, type)

(***************************************************************************)
(* The session zmr_initialize returns.                                     *)
(***************************************************************************)
\* C19: the session returned by zmr_initialize is in START with the parser
\* in IDLE/ZPAD, offset, ncan, ntimeouts and nerrors are 0, no flag is set
\* and there is no attn string, whatever the memory held before.
C19_InitialSession ==
  zm.op = "init"
    => /\ zm.state = "START"
       /\ zm.pstate = "IDLE" /\ zm.psubstate = "ZPAD"
       /\ zm.offset = 0 /\ zm.ncan = 0 /\ zm.ntimeouts = 0 /\ zm.nerrors = 0
       /\ zm.flags = {}
       /\ zm.attn = <<>>

(***************************************************************************)
(* The end of the session.  An eighth specification feeds ZFIN and the     *)
(* bytes that may follow it.                                               *)
(***************************************************************************)
FinProbes ==
  { H_FIN, H_RQINIT, H_FILE, OO, <<CH_O>>, <<ASCII_CAN>>, <<ASCII_CAN, CH_O>>,
    <<CH_O, ASCII_CAN, CH_O>>, <<ASCII_CAN, ASCII_CAN, CH_O>>,
    <<ZPAD, CH_O, CH_O>>, <<CH_O, ZPAD, CH_O>> }

FinFeed == FeedFrom(FinProbes)

SpecFinish == Init /\ [][FinFeed]_vars

\* C20: the OO event is raised only by the second of two consecutive 'O'
\* bytes; any other byte before or between them, a ZDLE (CAN) that no ZPAD
\* precedes included, starts the count again.  So a call that raises it
\* was given a chunk that starts with 'O' (the second one) or holds "OO".
C20_OnlyOOEndsTransfer ==
  \A e \in Events :
    e.event = ZME_OO
      => \/ zm.rcvbuf[1] = CH_O
         \/ \E i \in 1..(Len(zm.rcvbuf) - 1) :
              zm.rcvbuf[i] = CH_O /\ zm.rcvbuf[i + 1] = CH_O

(***************************************************************************)
(* flags.OO and the state FINISH.                                          *)
(***************************************************************************)
\* C21: flags.OO is set only while the state is FINISH, and every event
\* dispatched in FINISH that is a ZRQINIT, a ZFILE, a TIMEOUT or one of the
\* wildcard ERROR row leaves flags.OO clear.
C21_OOOnlyInFinish ==
  /\ "OO" \in zm.flags => zm.state = "FINISH"
  /\ \A e \in Events :
       (e.state = "FINISH"
          /\ (e.event \in {ZRQINIT, ZFILE, ZME_TIMEOUT} \/ e.action = "zmr_error"))
         => ~ e.oo

\* C22: whenever the state is FINISH and the parser is IDLE, flags.OO is
\* set, so that the two characters "OO" always complete the transfer.
C22_FinishIdleHasOO ==
  (zm.state = "FINISH" /\ zm.pstate = "IDLE") => "OO" \in zm.flags

(***************************************************************************)
(* The wildcard row.                                                       *)
(***************************************************************************)
\* the events zm_event() can be called with: the header types and the
\* events the parser and the host raise
EventCodes ==
  (ZRQINIT..ZSTDERR)
    \cup {ZME_CANCEL, ZME_OO, ZME_DATARCVD, ZME_TIMEOUT, ZME_ERROR}

HasRow(rows, event) ==
  \E i \in 1..Len(rows) : rows[i].type = event /\ rows[i].type # ZME_ERROR

\* C23: in every session the program reaches, zm_event() with an event that
\* has no row of its own in the table of the current state selects the ERROR
\* row: the action is zmr_error, the state, the parser state, offset and the
\* receive window stay as they are, nothing is written, flags.WAIT is set
\* and the action returns OK.
C23_WildcardIsNoOp ==
  \A event \in EventCodes :
    ~ HasRow(g_zmr_evtable[zm.state], event)
      => LET m2 == zm_event(zm, event)
         IN  /\ m2.ev[Len(m2.ev)].action = "zmr_error"
             /\ m2.state = zm.state
             /\ m2.pstate = zm.pstate /\ m2.psubstate = zm.psubstate
             /\ m2.offset = zm.offset
             /\ m2.rcvlen = zm.rcvlen /\ m2.rcvndx = zm.rcvndx
             /\ m2.rcvbuf = zm.rcvbuf
             /\ m2.wr = zm.wr
             /\ "WAIT" \in m2.flags
             /\ m2.ret = 0

\* an event without a row was dispatched while bytes of the chunk were still
\* unparsed in the window
C23_Witness ==
  /\ \E e \in Events :
       /\ e.action = "zmr_error" /\ e.event # ZME_ERROR
       /\ e.next = e.state /\ e.wr = <<>> /\ e.ret = 0
  /\ zm.rcvlen > 0
  /\ "WAIT" \in zm.flags

(***************************************************************************)
(* The rarer frames.  A specification that feeds the headers the main one  *)
(* leaves out: ZCOMMAND, ZSTDERR, a ZFILE that asks for a CRC, ZCRC.       *)
(***************************************************************************)
H_COMMAND == SndBin16Hdr(ZCOMMAND, g_zeroes, 0)
H_STDERR  == SndBin16Hdr(ZSTDERR, g_zeroes, 0)
\* ZFILE as a hex header, with its CR LF XON trailer
H_FILEHEX == SndHexHdr(ZFILE, g_zeroes, 0)

H_FILECRC == SndBin16Hdr(ZFILE, <<0, 0, ZMCRC, 0>>, 0)
H_CRC     == SndHexHdr(ZCRC, zm_be32toby(3), 0)


\* a packet whose payload, with what O_OPEN left in the buffer, leaves room
\* for the terminator and one CRC byte only
LastPacket ==
  [bytes |-> Fill(RestLen - 2) \o <<ZDLE, ZCRCW>> \o P_HI,
   payload |-> Fill(RestLen - 2), term |-> ZCRCW, fmt |-> ZBIN]

\* the packets whose framing is followed
FramingPackets == GoodPackets \cup {LastPacket}

FrameProbes ==
  { H_COMMAND, H_STDERR, H_SINIT, H_FILE, D_INFO, D_ATTN, D_BAD16,
    H_FILECRC, H_FILECRC \o D_INFO, H_FILE \o D_INFO, H_CRC }
  \cup { Preamble(0), Preamble32(0), O_OPEN }
  \cup { pk.bytes : pk \in FramingPackets }

FrameFeed == FeedFrom(FrameProbes)

SpecFrames == Init /\ [][FrameFeed]_vars

\* C24: a valid ZCOMMAND header received in START moves the state to COMMAND
\* and arms the parser for a data subpacket: pstate DATA, pktlen 0, ncrc 0.
C24_CommandArmsData ==
  (zm.rcvbuf = H_COMMAND
     /\ \E e \in Events : e.state = "START" /\ e.event = ZCOMMAND)
    => /\ zm.state = "COMMAND"
       /\ zm.pstate = "DATA" /\ zm.psubstate = "READ"
       /\ zm.pktlen = 0 /\ zm.ncrc = 0

(***************************************************************************)
(* After a delivered packet.                                               *)
(***************************************************************************)
\* a DATARCVD event in READING whose packet on_receive took
IsDelivered(e) == IsFileData(e) /\ e.rx # <<>> /\ zm.rret >= 0

\* C25: after a delivered subpacket in READING, ZCRCE and ZCRCW leave the
\* session in READREADY with the parser IDLE/ZPAD; ZCRCG and ZCRCQ leave it
\* in READING with the parser armed for the next subpacket (DATA, pktlen 0,
\* ncrc 0).
C25_AfterDeliveredPacket ==
  /\ \A e \in Events :
       IsDelivered(e)
         => IF e.pkttype \in {ZCRCE, ZCRCW}
            THEN e.next = "READREADY"
                   /\ e.pstate = "IDLE" /\ e.psubstate = "ZPAD"
            ELSE e.pkttype \in {ZCRCG, ZCRCQ}
                   /\ e.next = "READING"
                   /\ e.pstate = "DATA" /\ e.psubstate = "READ"
  /\ \A pk \in GoodPackets :
       (zm.rcvbuf = pk.bytes /\ pk.term \in {ZCRCG, ZCRCQ}
          /\ \E e \in Events : IsDelivered(e))
         => zm.pstate = "DATA" /\ zm.pktlen = 0 /\ zm.ncrc = 0

\* a ZCRCW packet was delivered, and the call ended in READREADY
C25_Witness ==
  /\ \E e \in Events : IsDelivered(e) /\ e.pkttype = ZCRCW
  /\ zm.state = "READREADY" /\ zm.pstate = "IDLE"

\* the four bytes of a number, least significant first
LsbFirst(n) == [i \in 1..4 |-> (n \div (256 ^ (i - 1))) % 256]

IsZeof(e) == e.event = ZEOF /\ e.state \in {"READREADY", "READING"}

\* C27: a valid ZEOF in READREADY or READING moves the state to START and
\* writes ZRINIT only if the length it carries equals offset; otherwise the
\* state becomes READREADY and nothing is written.  offset is unchanged in
\* both cases.
C27_ZeofLengthCheck ==
  \A e \in Events :
    IsZeof(e)
      => /\ e.offset2 = e.offset
         /\ IF HdrPos(e) = e.offset
            THEN e.next = "START" /\ e.wr = <<ZrinitHdr(zm.rcaps)>>
            ELSE e.next = "READREADY" /\ e.wr = <<>>

\* a ZEOF whose length matched was answered in READREADY, the offset not
\* being 0
C27_Witness ==
  \E e \in Events :
    /\ IsZeof(e) /\ e.state = "READREADY"
    /\ HdrPos(e) = e.offset /\ e.offset > 0
    /\ e.next = "START" /\ e.wr # <<>>

(***************************************************************************)
(* The file information packet.                                            *)
(***************************************************************************)
\* a DATARCVD event handled in FILEINFO
IsFileInfo(e) == e.event = ZME_DATARCVD /\ e.state = "FILEINFO"

\* the ZFILE header that led to FILEINFO asked for the file CRC; it is still
\* the header in hdrdata when the packet ends
AsksCrc(e) == BAnd(e.hdrdata[4], ZMMASK) = ZMCRC

\* C28: DATARCVD in FILEINFO returns the parser to IDLE; with a good CRC the
\* state becomes CRCWAIT and ZCRC is written when (f1 & ZMMASK) = ZMCRC, and
\* otherwise READREADY with ZRPOS(offset) written; with a bad CRC the state
\* becomes START and ZNAK is written.  In CRCWAIT a ZCRC header moves the
\* state to READREADY and writes ZRPOS(offset).
C28_FileInfoPacket ==
  /\ zm.state = "FILEINFO" => zm.hdrdata[1] = ZFILE /\ zm.f1 = zm.hdrdata[4]
  /\ \A e \in Events :
       IsFileInfo(e)
         => /\ e.pstate = "IDLE" /\ e.psubstate = "ZPAD"
            /\ IF ~ e.crkok
               THEN e.next = "START"
                      /\ e.wr = <<HexHdrBytes(ZNAK, g_zeroes)>>
               ELSE IF AsksCrc(e)
               THEN e.next = "CRCWAIT"
                      /\ e.wr = <<HexHdrBytes(ZCRC, g_zeroes)>>
               ELSE e.next = "READREADY"
                      /\ e.wr = <<HexHdrBytes(ZRPOS, LsbFirst(e.offset))>>
  /\ \A e \in Events :
       (e.state = "CRCWAIT" /\ e.event = ZCRC)
         => /\ e.next = "READREADY"
            /\ e.wr = <<HexHdrBytes(ZRPOS, LsbFirst(e.offset))>>

\* the sender answered the ZCRC request and the session went on to READREADY
C28_Witness ==
  \E e \in Events :
    e.state = "CRCWAIT" /\ e.event = ZCRC /\ e.next = "READREADY"

(***************************************************************************)
(* Data subpacket framing.                                                 *)
(***************************************************************************)
\* the parser waits for packet data, outside of an escape sequence
Armed(m) == m.pstate = "DATA" /\ m.psubstate = "READ" /\ "ESC" \notin m.flags

\* the number of CRC bytes that follow the terminator
CrcLen(m) == IF m.hdrfmt = ZBIN32 THEN 4 ELSE 2

\* what is in the buffer, the payload, the terminator and the CRC fit
Fits(m, pk) == m.pktlen + Len(pk.payload) + 1 + CrcLen(m) <= PKTBUFSIZE

\* the call that is given the packet in one chunk, the parser being armed
FramingCall(pk) ==
  Armed(zm) /\ nfeeds' = nfeeds + 1 /\ zm'.rcvbuf = pk.bytes

\* the packet is framed: one DATARCVD event, raised by the last byte, with
\* the terminator as pkttype and the payload as the data the handler sees
FramedAs(pk) ==
  /\ Len(zm'.ev) = 1
  /\ zm'.ev[1].event = ZME_DATARCVD
  /\ zm'.ev[1].pkttype = pk.term
  /\ zm'.ev[1].data = SubSeq(zm.pktbuf, 1, zm.pktlen) \o pk.payload
  /\ zm'.ncons = Len(pk.bytes)
  /\ zm'.pstate = zm'.ev[1].pstate
  /\ zm'.pstate \in {"IDLE", "DATA"}
  /\ zm'.pstate = "DATA"
       => zm'.psubstate = "READ" /\ zm'.pktlen = 0 /\ zm'.ncrc = 0

\* the packet as the parser takes it, by the format of the last header
Framing(pk) ==
  IF (pk.fmt = ZBIN32) = (zm.hdrfmt = ZBIN32) THEN FramedAs(pk)
  ELSE IF zm.hdrfmt = ZBIN32
  THEN zm'.ev = <<>> /\ zm'.pstate = "DATA" /\ zm'.psubstate = "CRC"
         /\ zm'.pkttype = pk.term
  ELSE Len(zm'.ev) >= 1 /\ zm'.ev[1].event = ZME_DATARCVD
         /\ zm'.ev[1].pkttype = pk.term
         /\ zm'.ev[1].data = SubSeq(zm.pktbuf, 1, zm.pktlen) \o pk.payload

\* C29 as stated: in DATA state ZDLE followed by t in {ZCRCE, ZCRCG, ZCRCQ,
\* ZCRCW} sets pkttype to t, exactly 2 (ZBIN, ZHEX) or 4 (ZBIN32) further
\* bytes are consumed as CRC, DATARCVD is then raised exactly once, the
\* parser is IDLE unless the action armed DATA again, and the pktlen the
\* handler sees is the number of payload bytes.
C29_FramingAsStated ==
  [][\A pk \in FramingPackets : FramingCall(pk) => Framing(pk)]_vars

\* C29, for a packet that fits: the same, provided the bytes in the buffer,
\* the payload, the terminator and the CRC are at most PKTBUFSIZE bytes.
C29_SubpacketFraming ==
  [][\A pk \in FramingPackets :
       (FramingCall(pk) /\ Fits(zm, pk)) => Framing(pk)]_vars

\* a packet that follows a ZBIN32 header was framed with its four CRC bytes
C29_Witness ==
  /\ zm.rcvbuf = Packet(P_HI, ZCRCQ, ZBIN32).bytes
  /\ zm.hdrfmt = ZBIN32
  /\ Len(zm.ev) = 1 /\ zm.ev[1].event = ZME_DATARCVD
  /\ zm.ev[1].data = P_HI /\ zm.ev[1].crkok

(***************************************************************************)
(* XON and XOFF.                                                           *)
(***************************************************************************)
\* the call that is given a single XON
XonCall == nfeeds' = nfeeds + 1 /\ zm'.op = "feed" /\ zm'.rcvbuf = <<ASCII_XON>>

\* the parser is where it was and nothing was stored
ParserKept ==
  /\ zm'.pstate = zm.pstate /\ zm'.psubstate = zm.psubstate
  /\ zm'.pktlen = zm.pktlen /\ zm'.pktbuf = zm.pktbuf
  /\ zm'.flags = zm.flags
  /\ zm'.nparsed = 0

\* C30: an XON or XOFF is skipped, the parser staying where it is and nothing
\* being stored, except when flags.ESC is set: then the byte is handed to
\* the parser as the escaped character and flags.ESC is cleared.
C30_XonSkippedUnlessEscaped ==
  [][XonCall
       => IF "ESC" \in zm.flags /\ zm.pstate = "DATA"
               /\ zm.pktlen < PKTBUFSIZE
          THEN "ESC" \notin zm'.flags /\ zm'.nparsed = 1
          ELSE ParserKept]_vars

(***************************************************************************)
(* The count of CAN bytes.                                                 *)
(***************************************************************************)
\* the length of the run of CAN bytes that ends the bytes received, the
\* run before the chunk being run
RECURSIVE RunAfter(_, _)
RunAfter(run, chunk) ==
  IF chunk = <<>> THEN run
  ELSE RunAfter(IF Head(chunk) = ASCII_CAN THEN run + 1 ELSE 0, Tail(chunk))

\* C31: ncan is the length of the current run of consecutive CAN bytes
\* received: every CAN of a chunk adds 1, every other byte (XON and XOFF
\* included) makes it 0, and the run goes on from one call to the next.
C31_CanCountIsRunLength ==
  [][(nfeeds' = nfeeds + 1 /\ zm'.op = "feed")
       => zm'.ncan = RunAfter(zm.ncan, zm'.rcvbuf)]_vars

(***************************************************************************)
(* The count of timeouts.                                                  *)
(***************************************************************************)
\* C32: ntimeouts counts consecutive timeouts in the current state: after
\* every event that is not a TIMEOUT, and after every event that changes the
\* receive state, it is 0.
C32_TimeoutsAreConsecutive ==
  \A e \in Events :
    (e.event # ZME_TIMEOUT \/ e.next # e.state) => e.ntimeouts2 = 0

(***************************************************************************)
(* A write that fails.  A specification in which both callbacks can fail   *)
(* in one call, fed with chunks that make the session reply.               *)
(***************************************************************************)
\* a file of one packet, its end, and the opening of a second file
TwoFiles ==
  Preamble(0) \o Packet(P_HI, ZCRCW, ZBIN).bytes \o H_EOF(Len(P_HI))
    \o H_FILE \o D_INFO

WriteProbes ==
  { H_RQINIT, H_RQINIT \o H_RQINIT, BadHex, H_SINIT \o D_ATTN, H_FIN,
    Preamble(0), Preamble(3), D_BAD16, D_BAD16 \o H_RQINIT, TwoFiles }
  \cup { pk.bytes : pk \in GoodPackets }
  \cup { H_COMMAND, H_STDERR, H_STDERR \o D_INFO, CAN5, OO }
  \cup { H_FILEHEX, H_FILEHEX \o D_INFO }

WriteFeed ==
  /\ nfeeds < MaxFeeds
  /\ \E chunk \in WriteProbes, cb \in Callbacks \cup {<<0 - EIO, 0 - 1>>} :
       /\ zm' = zmr_receive(zm, chunk, cb[1], cb[2])
       /\ total' = total + Delivered(zm')
  /\ nfeeds' = nfeeds + 1

SpecWrite == Init /\ [][WriteFeed \/ Timeout]_vars

\* the call wrote, and the write callback returned a negative value
WriteFailed == zm.op = "feed" /\ zm.wr # <<>> /\ zm.wret < 0

\* on_receive was called in the call and returned a negative value
ReceiveFailed == zm.rx # <<>> /\ zm.rret < 0

\* the call returned what the write callback returned, the loop ended with
\* the byte that caused the write, and no second write was attempted
StoppedByWrite ==
  /\ zm.ret = zm.wret
  /\ zm.halt
  /\ Len(zm.wr) = 1
  /\ \A i \in DOMAIN zm.ev :
       zm.ev[i].wr # <<>> => i = Len(zm.ev) /\ zm.ev[i].ret = zm.wret

\* C33 as stated: when the write callback returns a negative value while a
\* reply header is being sent, the call returns that value and takes no
\* further byte of the chunk.
C33_WriteErrorAsStated == WriteFailed => StoppedByWrite

\* C33, the reply to a failed on_receive apart: the same, for a reply that
\* is not the ZFERR header sent after on_receive returned a negative value.
C33_WriteErrorStopsFeed == (WriteFailed /\ ~ ReceiveFailed) => StoppedByWrite

\* a reply in the middle of a chunk failed: bytes of the chunk were left
C33_Witness ==
  /\ WriteFailed /\ ~ ReceiveFailed /\ zm.ret < 0
  /\ zm.rcvlen > 0 /\ zm.rcvndx < zm.rcvlen

(***************************************************************************)
(* The parser and the receive state.                                       *)
(***************************************************************************)
\* C34: whenever the parser is in DATA, the receive state is one whose table
\* has a DATARCVD row of its own (INITWAIT, FILEINFO, READING, COMMAND or
\* MESSAGE), and no DATARCVD event is dispatched to the ERROR row.
C34_DataStateHasDataRow ==
  /\ zm.pstate = "DATA" => HasRow(g_zmr_evtable[zm.state], ZME_DATARCVD)
  /\ zm.pstate = "DATA"
       => zm.state \in {"INITWAIT", "FILEINFO", "READING", "COMMAND", "MESSAGE"}
  /\ \A e \in Events : e.event = ZME_DATARCVD => e.action # "zmr_error"

(***************************************************************************)
(* The file offset.                                                        *)
(***************************************************************************)
\* the call delivered a packet: on_receive took it in READING
SomeDelivered(m) ==
  \E i \in DOMAIN m.ev :
    /\ m.ev[i].event = ZME_DATARCVD /\ m.ev[i].state = "READING"
    /\ m.ev[i].crkok /\ m.ev[i].rx # <<>> /\ m.rret >= 0

\* only a delivered packet changes offset, by the length of its payload
OffsetFrame ==
  \A e \in Events :
    e.offset2 # e.offset
      => IsDelivered(e) /\ e.crkok /\ e.offset2 = e.offset + Len(e.data)

\* the ZRPOS that answers the file information carries the offset as it is
SecondFileRpos ==
  \A e \in Events :
    (IsFileInfo(e) /\ e.crkok /\ ~ AsksCrc(e))
      => e.offset2 = e.offset
           /\ e.wr = <<HexHdrBytes(ZRPOS, LsbFirst(e.offset))>>

OffsetKept == OffsetFrame /\ SecondFileRpos

\* no call makes offset smaller, and a call that changes it delivered
OffsetGrows ==
  /\ zm'.offset >= zm.offset
  /\ zm'.offset # zm.offset => SomeDelivered(zm')

Absorbed ==
  zm.state \in {"COMMAND", "MESSAGE"}
    => /\ zm'.state = zm.state
       /\ zm'.ret # ZM_XFRDONE
       /\ \A i \in DOMAIN zm'.ev :
            zm'.ev[i].state = zm.state /\ zm'.ev[i].next = zm.state

\* C36: COMMAND and MESSAGE are absorbing: once the receive state is COMMAND
\* or MESSAGE no header, DATARCVD, OO, CANCEL or TIMEOUT event changes it,
\* and no call returns XFRDONE.
C36_CommandMessageAbsorbing == [][Absorbed]_vars

\* in MESSAGE a header, a packet, a cancel or a timeout was dispatched and
\* the state stayed MESSAGE
C36_Witness ==
  /\ zm.state = "MESSAGE"
  /\ \E e \in Events : e.state = "MESSAGE" /\ e.next = "MESSAGE"

(***************************************************************************)
(* State DONE.                                                             *)
(***************************************************************************)
IsOverAndOut(e) == e.event = ZME_OO /\ e.state = "FINISH"

HexArmed(m) ==
  /\ m.op = "feed"
  /\ m.rcvndx = m.rcvlen
  /\ m.hd # <<>>
  /\ m.hd[Len(m.hd)].hdrfmt = ZHEX
  /\ m.hd[Len(m.hd)].crcok
  /\ m.pstate = "DATA"

\* C38: the CR LF [XON] trailer of a ZHEX header is never stored in the
\* packet buffer: after a valid hex header that arms DATA and its trailer,
\* the buffer is empty, and the packet that follows is the one dispatched.
C38_HexTrailerNotStored ==
  /\ (HexArmed(zm) /\ zm.rcvbuf = H_FILEHEX) => zm.pktlen = 0
  /\ (zm.op = "feed" /\ zm.rcvbuf = H_FILEHEX \o D_INFO /\ zm.hd # <<>>
        /\ zm.hd[1].crcok /\ zm.hd[1].state = "START")
       => \E e \in Events : IsFileInfo(e) /\ e.crkok

(***************************************************************************)
(* The layout of a hex header.  A specification of its own calls           *)
(* zm_sendhexhdr() with every header type and a few payloads.              *)
(***************************************************************************)
SentTypes == ZRQINIT .. ZSTDERR

SentPayloads == { g_zeroes, <<171, 205, 239, 18>>, <<255, 255, 255, 255>> }

\* one call of zm_sendhexhdr() and what the write callback returns to it;
\* args keeps the type and the payload the call was given
SentHexHdr(m, type, buffer, wret) ==
  End(zm_sendhexhdr([Begin(m, "send", wret, 0) EXCEPT
                       !.args = <<type>> \o buffer], type, buffer))

SendHexHdr ==
  /\ nfeeds < MaxLoops
  /\ \E type \in SentTypes, buffer \in SentPayloads :
       zm' = SentHexHdr(zm, type, buffer, 0)
  /\ nfeeds' = nfeeds + 1
  /\ UNCHANGED total

SpecHexHdr == Init /\ [][SendHexHdr]_vars

\* '0'..'9' and 'a'..'f'
IsLowerHex(ch) == ch \in (48 .. 57) \cup (97 .. 102)

\* the byte two hex digits stand for
HexPair(bytes, i) ==
  zm_decnibble(bytes[i]) * 16 + zm_decnibble(bytes[i + 1])

\* the header as laid out on the line: four lead-in bytes, fourteen
\* lower-case digits for type, payload and the two CRC bytes high byte
\* first, CR LF, and XON unless the type is ZACK or ZFIN
HexLayout(bytes, type, buffer) ==
  LET crc  == crc16part(<<type>> \o buffer \o <<0, 0>>, 0)
      xon  == type # ZACK /\ type # ZFIN
  IN  /\ Len(bytes) = IF xon THEN 21 ELSE 20
      /\ SubSeq(bytes, 1, 4) = <<ZPAD, ZPAD, ZDLE, ZHEX>>
      /\ \A i \in 5 .. 18 : IsLowerHex(bytes[i])
      /\ HexPair(bytes, 5) = type
      /\ \A k \in 1 .. 4 : HexPair(bytes, 5 + 2 * k) = buffer[k]
      /\ HexPair(bytes, 15) = (crc \div 256) % 256
      /\ HexPair(bytes, 17) = crc % 256
      /\ bytes[19] = ASCII_CR
      /\ bytes[20] = ASCII_LF
      /\ xon => bytes[21] = ASCII_XON

HexHdrSent ==
  zm.op = "send"
    => /\ Len(zm.wr) = 1
       /\ HexLayout(zm.wr[1], Head(zm.args), Tail(zm.args))

\* C39: for every type and 4-byte payload zm_sendhexhdr writes, in one call
\* of the write callback, ZPAD ZPAD ZDLE 'B', 14 lower-case hex digits (type,
\* p0..p3, CRC high byte, CRC low byte), CR LF, and XON if and only if the
\* type is neither ZACK nor ZFIN: 21 bytes, or 20 without XON.
C39_HexHeaderLayout == HexHdrSent

\* a ZRPOS header with digits above 9 was written, XON at its end
C39_Witness ==
  /\ zm.op = "send"
  /\ zm.args = <<ZRPOS, 171, 205, 239, 18>>
  /\ Len(zm.wr) = 1
  /\ Len(zm.wr[1]) = 21
  /\ HexPair(zm.wr[1], 5) = ZRPOS
  /\ SubSeq(zm.wr[1], 7, 14) = zm_puthex8(171) \o zm_puthex8(205)
                               \o zm_puthex8(239) \o zm_puthex8(18)

(***************************************************************************)
(* Newline conversion.  A specification of its own hands buffers of line   *)
(* ends and other bytes to zm_writefile(); zm then holds the static flag   *)
(* newline, all the input given so far (inp) and all the bytes passed to   *)
(* zm_write() so far (out).                                                *)
(***************************************************************************)
MaxWrites == 2

MaxBuf == 3

\* zm_write(): the bytes it is passed, in order; it returns 0
zm_write(m, bytes) == [m EXCEPT !.out = @ \o bytes, !.ret = 0]

\* the for loop of zm_writefile: i bytes of the buffer were taken, start is
\* the index where the pending run begins, nbytes its length
RECURSIVE WriteLoop(_, _, _, _, _)
WriteLoop(m, buffer, i, start, nbytes) ==
  IF i >= Len(buffer) \/ m.ret # 0
  THEN IF m.ret = 0 /\ nbytes > 0
       THEN zm_write(m, SubSeq(buffer, start + 1, start + nbytes))
       ELSE m
  ELSE
    LET ch == buffer[i + 1]
    IN  IF ch = ASCII_LF \/ ch = ASCII_CR
        THEN LET m1 == IF nbytes > 0
                       THEN zm_write(m, SubSeq(buffer, start + 1, start + nbytes))
                       ELSE m
                 s1 == IF nbytes > 0 THEN i + 1 ELSE start
                 m2 == IF m1.ret # 0 THEN m1
                       ELSE IF m1.newline THEN [m1 EXCEPT !.newline = FALSE]
                       ELSE [zm_write(m1, <<ASCII_LF>>) EXCEPT !.newline = TRUE]
             IN  WriteLoop(m2, buffer, i + 1, s1, 0)
        ELSE WriteLoop([m EXCEPT !.newline = FALSE], buffer, i + 1, start,
                       nbytes + 1)

zm_writefile(m, buffer, zcnl) ==
  IF zcnl THEN WriteLoop([m EXCEPT !.ret = 0], buffer, 0, 0, 0)
  ELSE zm_write(m, buffer)

\* buffers of up to MaxBuf bytes over CR, LF and one other byte
RECURSIVE BuffersOf(_)
BuffersOf(n) ==
  IF n = 0 THEN { <<>> }
  ELSE LET shorter == BuffersOf(n - 1)
       IN  shorter \cup { Append(b, ch) : b \in { s \in shorter : Len(s) = n - 1 },
                                          ch \in {ASCII_CR, ASCII_LF, Head(P_HI)} }

Buffers == BuffersOf(MaxBuf) \ { <<>> }

\* newline is a static variable, false when the program starts
InitNewline ==
  /\ zm = [op |-> "init", newline |-> FALSE, inp |-> <<>>, out |-> <<>>,
           ret |-> 0]
  /\ total = 0
  /\ nfeeds = 0

WriteFile ==
  /\ nfeeds < MaxWrites
  /\ \E buffer \in Buffers :
       zm' = zm_writefile([zm EXCEPT !.op = "writefile", !.inp = @ \o buffer],
                          buffer, TRUE)
  /\ nfeeds' = nfeeds + 1
  /\ UNCHANGED total

SpecNewline == InitNewline /\ [][WriteFile]_vars

\* the text with every CR, LF, CR LF or LF CR replaced by one LF
RECURSIVE Unix(_)
Unix(text) ==
  IF text = <<>> THEN <<>>
  ELSE IF Head(text) \in {ASCII_CR, ASCII_LF}
  THEN IF Len(text) >= 2 /\ text[2] \in {ASCII_CR, ASCII_LF}
          /\ text[2] # Head(text)
       THEN <<ASCII_LF>> \o Unix(Tail(Tail(text)))
       ELSE <<ASCII_LF>> \o Unix(Tail(text))
  ELSE <<Head(text)>> \o Unix(Tail(text))

\* C40: with zcnl the bytes zm_writefile passes to the writer are the input
\* with every CR, LF, CR LF or LF CR replaced by exactly one LF and every
\* other byte kept in order (LF LF gives two LFs), however the input is
\* split across successive calls.
C40_NewlineConversion ==
  zm.op = "writefile" => (zm.ret = 0 /\ zm.out = Unix(zm.inp))

=============================================================================
